---------------------------- MODULE Spec2Model ----------------------------
(***************************************************************************)
(* A model of the Invoke automation tasks of gisht (src/tasks): the build  *)
(* tasks (rustc version gate, cargo invocation, README patching), and the  *)
(* release tasks (fpm bundles, Homebrew formula, release directory).       *)
(*                                                                         *)
(* Text is modelled as Python str values: sequences of one-character       *)
(* strings.  External programs (rustc, git, cargo, fpm, which, uname) are  *)
(* the environment: their exit codes and outputs are inputs of each run.   *)
(* A task run is one action: it threads a "world" record (file system,     *)
(* trace of started processes and steps, exit status) through the          *)
(* statements of the task in source order; a raised exception stops it.    *)
(***************************************************************************)
EXTENDS Integers, Sequences, FiniteSets, TLC

VARIABLES
    fs,      \* the project directory: README.md, release/, target/, ...
    before,  \* the project directory as it was when the last task run began
    trace,   \* steps and processes of the last task run, in order
    exit,    \* how the last task run ended: [code, err]
    inv,     \* the last invocation: task, arguments and environment
    nruns    \* number of task runs so far

vars == <<fs, before, trace, exit, inv, nruns>>

-----------------------------------------------------------------------------
(* Bounds of the model *)

MaxBuildRuns == 1    \* task invocations per behaviour of SpecBuild
MaxReadmeRuns == 1   \* task invocations per behaviour of SpecReadme
MaxReleaseRuns == 1  \* task invocations per behaviour of SpecRelease
MaxDigestRuns == 1   \* calls of hex_digest per behaviour of SpecDigest
MaxFileLen == 4      \* bytes of a file hex_digest reads
MaxBufSize == 5      \* largest buf_size hex_digest is called with
MaxReadme == 3       \* lines of README.md in the initial states
MaxMajor == 2        \* largest major version number rustc reports

-----------------------------------------------------------------------------
(* Python str operations *)

\* The sequence a function on 1..n is
AsSeq(f) == <<>> \o f

Chars(s) == AsSeq([i \in 1..Len(s) |-> SubSeq(s, i, i)])

Whitespace == {" ", "\n", "\t", "\r"}

\* Characters in code point order; Ord gives the relative order of two.
AsciiOrder ==
    Chars("\t\n\r !#$()+-./0123456789:<>ABCDEFGHIJKLMNOPQRSTUVWXYZ_abcdefghijklmnopqrstuvwxyz")

Ord(c) == CHOOSE i \in 1..Len(AsciiOrder) : AsciiOrder[i] = c

IsDigit(c) == c \in {"0", "1", "2", "3", "4", "5", "6", "7", "8", "9"}

UpperCase == Chars("ABCDEFGHIJKLMNOPQRSTUVWXYZ")
LowerCase == Chars("abcdefghijklmnopqrstuvwxyz")

LowerChar(c) ==
    IF \E i \in 1..Len(UpperCase) : UpperCase[i] = c
    THEN LowerCase[CHOOSE i \in 1..Len(UpperCase) : UpperCase[i] = c]
    ELSE c

UpperChar(c) ==
    IF \E i \in 1..Len(LowerCase) : LowerCase[i] = c
    THEN UpperCase[CHOOSE i \in 1..Len(LowerCase) : LowerCase[i] = c]
    ELSE c

\* str.lower()
Lower(s) == AsSeq([i \in 1..Len(s) |-> LowerChar(s[i])])

\* str.capitalize()
Capitalize(s) ==
    AsSeq([i \in 1..Len(s) |-> IF i = 1 THEN UpperChar(s[i]) ELSE LowerChar(s[i])])

\* str.startswith(p)
StartsWith(s, p) == Len(s) >= Len(p) /\ SubSeq(s, 1, Len(p)) = p

\* p in s
Contains(s, p) ==
    \E i \in 1..(Len(s) - Len(p) + 1) : SubSeq(s, i, i + Len(p) - 1) = p

\* the first position from i on that holds no whitespace (Len(s) + 1: none)
FirstKept(s, i) ==
    IF \A k \in i..Len(s) : s[k] \in Whitespace THEN Len(s) + 1
    ELSE CHOOSE j \in i..Len(s) :
             s[j] \notin Whitespace /\ \A k \in i..(j - 1) : s[k] \in Whitespace

\* str.lstrip()
LStrip(s) == SubSeq(s, FirstKept(s, 1), Len(s))

\* str.rstrip()
RStrip(s) ==
    IF \A k \in 1..Len(s) : s[k] \in Whitespace THEN <<>>
    ELSE SubSeq(s, 1, CHOOSE j \in 1..Len(s) :
                         s[j] \notin Whitespace
                            /\ \A k \in (j + 1)..Len(s) : s[k] \in Whitespace)

\* str.strip()
Strip(s) == LStrip(RStrip(s))

RECURSIVE SplitWsFrom(_, _, _)
\* the words of s from position i on, after the words acc
SplitWsFrom(s, i, acc) ==
    LET \* the first position from b on that holds whitespace (Len(s) + 1: none)
        FirstSpace(b) ==
            IF \A k \in b..Len(s) : s[k] \notin Whitespace THEN Len(s) + 1
            ELSE CHOOSE j \in b..Len(s) :
                     s[j] \in Whitespace /\ \A k \in b..(j - 1) : s[k] \notin Whitespace
        Word(b, n) ==
            IF b > Len(s) THEN acc
            ELSE SplitWsFrom(s, n, Append(acc, SubSeq(s, b, n - 1)))
        From(b) == Word(b, FirstSpace(b))
    IN  From(FirstKept(s, i))

\* str.split(None): the maximal runs of non-whitespace
SplitWs(s) == SplitWsFrom(s, 1, <<>>)

\* the first position of c in s from i on (0: none)
IndexFrom(s, c, i) ==
    IF \A k \in i..Len(s) : s[k] # c THEN 0
    ELSE CHOOSE j \in i..Len(s) : s[j] = c /\ \A k \in i..(j - 1) : s[k] # c

\* the first position of c in s (0: none)
IndexOf(s, c) == IndexFrom(s, c, 1)

RECURSIVE SplitOnFrom(_, _, _, _)
\* the parts of s from position b on, after the parts acc
SplitOnFrom(s, sep, b, acc) ==
    LET n == IndexFrom(s, sep, b)
    IN  IF n = 0 THEN Append(acc, SubSeq(s, b, Len(s)))
        ELSE SplitOnFrom(s, sep, n + 1, Append(acc, SubSeq(s, b, n - 1)))

\* str.split(sep) for a one-character separator
SplitOn(s, sep) == SplitOnFrom(s, sep, 1, <<>>)

RECURSIVE Join(_, _)
\* sep.join(parts)
Join(sep, parts) ==
    IF parts = <<>> THEN <<>>
    ELSE IF Len(parts) = 1 THEN parts[1]
    ELSE Join(sep, SubSeq(parts, 1, Len(parts) \div 2)) \o sep
            \o Join(sep, SubSeq(parts, (Len(parts) \div 2) + 1, Len(parts)))

RECURSIVE StrLess(_, _)
\* a < b for Python str: lexicographic by code point
StrLess(a, b) ==
    IF b = <<>> THEN FALSE
    ELSE IF a = <<>> THEN TRUE
    ELSE IF Head(a) # Head(b) THEN Ord(Head(a)) < Ord(Head(b))
    ELSE StrLess(Tail(a), Tail(b))

\* a >= b for Python str
StrGeq(a, b) == ~StrLess(a, b)

RECURSIVE DecStr(_)
\* str(n) for n >= 0
DecStr(n) ==
    IF n < 10 THEN <<AsciiOrder[Ord("0") + n]>>
    ELSE DecStr(n \div 10) \o <<AsciiOrder[Ord("0") + (n % 10)]>>

RECURSIVE ParseInt(_)
\* int(s) for a string of digits
ParseInt(s) ==
    IF s = <<>> THEN 0
    ELSE 10 * ParseInt(SubSeq(s, 1, Len(s) - 1)) + (Ord(s[Len(s)]) - Ord("0"))

\* Python dict: a function on its set of keys; a.update(b)
DictUpdate(a, b) == b @@ a

EmptyDict == [k \in {} |-> <<>>]

-----------------------------------------------------------------------------
(* The semver package, as far as semver.match(version, '>=' + MIN) uses it. *)
(* Versions carry no '+build' part in this model.                           *)

SemverCore(s) ==
    IF IndexOf(s, "-") = 0 THEN s ELSE SubSeq(s, 1, IndexOf(s, "-") - 1)

SemverPre(s) ==
    IF IndexOf(s, "-") = 0 THEN <<>> ELSE SubSeq(s, IndexOf(s, "-") + 1, Len(s))

\* whether semver.parse(s) succeeds (it raises ValueError otherwise)
SemverValid(s) ==
    LET \* (?:0|[1-9][0-9]*)
        IsNumericId(p) ==
            /\ p # <<>>
            /\ \A i \in 1..Len(p) : IsDigit(p[i])
            /\ (Len(p) = 1 \/ p[1] # "0")
        \* [0-9A-Za-z-]+
        IsAlnumId(p) ==
            /\ p # <<>>
            /\ \A i \in 1..Len(p) :
                  \/ IsDigit(p[i])
                  \/ p[i] = "-"
                  \/ LowerChar(p[i]) # p[i]
                  \/ UpperChar(p[i]) # p[i]
        Matches(core, pre) ==
            /\ Len(core) = 3
            /\ \A i \in 1..3 : IsNumericId(core[i])
            /\ (IndexOf(s, "-") # 0 => \A i \in 1..Len(pre) : IsAlnumId(pre[i]))
    IN  Matches(SplitOn(SemverCore(s), "."), SplitOn(SemverPre(s), "."))

\* semver.parse(s) of a valid s
SemverParse(s) ==
    LET Groups(core) ==
            [major |-> ParseInt(core[1]), minor |-> ParseInt(core[2]),
             patch |-> ParseInt(core[3]), prerelease |-> SemverPre(s)]
    IN  Groups(SplitOn(SemverCore(s), "."))

StrCmp(a, b) == IF StrLess(a, b) THEN -1 ELSE IF StrLess(b, a) THEN 1 ELSE 0

\* semver.compare(ver1, ver2) of two valid versions: -1, 0 or 1
SemverCompare(ver1, ver2) ==
    LET Cmp(a, b) == IF a < b THEN -1 ELSE IF a > b THEN 1 ELSE 0
        Compare(d1, d2) ==
            IF d1.major # d2.major THEN Cmp(d1.major, d2.major)
            ELSE IF d1.minor # d2.minor THEN Cmp(d1.minor, d2.minor)
            ELSE IF d1.patch # d2.patch THEN Cmp(d1.patch, d2.patch)
            ELSE IF d1.prerelease = <<>> /\ d2.prerelease = <<>> THEN 0
            ELSE IF d1.prerelease = <<>> THEN 1
            ELSE IF d2.prerelease = <<>> THEN -1
            ELSE StrCmp(d1.prerelease, d2.prerelease)
    IN  Compare(SemverParse(ver1), SemverParse(ver2))

\* A comparison of the two version strings as plain Python str values.
StringCompare(ver1, ver2) == StrCmp(ver1, ver2)

\* semver.match(version, match_expr) of a valid version
SemverMatch(version, match_expr) ==
    LET prefix == SubSeq(match_expr, 1, 2)
        Test(op, res) ==
            CASE op = Chars(">=") -> res \in {0, 1}
              [] op = Chars("<=") -> res \in {-1, 0}
              [] op = Chars("==") -> res = 0
              [] op = Chars("!=") -> res \in {-1, 1}
              [] op = Chars(">")  -> res = 1
              [] op = Chars("<")  -> res = -1
        Match(op) ==
            Test(op, SemverCompare(version,
                                   SubSeq(match_expr, Len(op) + 1, Len(match_expr))))
    IN  Match(IF prefix \in {Chars(">="), Chars("<="), Chars("=="), Chars("!=")}
              THEN prefix ELSE SubSeq(match_expr, 1, 1))

-----------------------------------------------------------------------------
(* The world a task runs in, and Invoke's ctx.run *)

\* A task in progress: the file system, the steps so far, and how it ended
\* ("running" while no exception was raised and the process was not replaced).
\* ret is the value returned by the last task function called
World(f) == [fs |-> f, trace |-> <<>>, code |-> 0, err |-> "running", ret |-> <<>>]

Running(w) == w.err = "running"

\* raise Exit(code), an uncaught exception, or the end of the process
Raise(w, code, kind) == [w EXCEPT !.code = code, !.err = kind]

\* One entry of the trace: a subprocess (kind "run"), a process image
\* replacement (kind "exec") or a step on the file system (kind "step").
\* flags is the dictionary of flags an fpm command line is built from.
Event(kind, cmd, env, flags) ==
    [kind |-> kind, cmd |-> cmd, env |-> env, flags |-> flags]

Log(w, step) == [w EXCEPT !.trace = Append(@, Event("step", Chars(step), EmptyDict, <<>>))]

\* ctx.run(cmd, env=env, warn=warn): the child gets os.environ updated with
\* env; without warn a non-zero exit code raises UnexpectedExit, which ends
\* the Invoke process with that code.
ctx_run(w, e, cmd, env, warn, rc) ==
    IF ~Running(w) THEN w
    ELSE LET w1 == [w EXCEPT !.trace =
                       Append(@, Event("run", cmd, DictUpdate(e.osEnv, env), <<>>))]
         IN  IF rc # 0 /\ ~warn THEN Raise(w1, rc, "UnexpectedExit") ELSE w1

\* shlex.quote(s), for s without single quotes
quote(s) ==
    LET SafeChars ==
            Chars("abcdefghijklmnopqrstuvwxyzABCDEFGHIJKLMNOPQRSTUVWXYZ0123456789@%+=:,./-_")
    IN  IF s # <<>> /\ \A i \in 1..Len(s) : \E j \in 1..Len(SafeChars) : SafeChars[j] = s[i]
        THEN s
        ELSE Chars("'") \o s \o Chars("'")

-----------------------------------------------------------------------------
(* src/tasks/util.py *)

MIN_RUSTC_VERSION == Chars("1.18.0")

\* The version check as a comparison of the two strings, version >= minimum
VersionAcceptedAsString(version, minimum) == StrGeq(version, minimum)

\* semver.match(version, '>=' + minimum), for a version semver can parse
VersionAccepted(version, minimum) == SemverMatch(version, Chars(">=") \o minimum)

\* ensure_rustc_version(ctx): the world after it; still running iff it
\* returned True.
ensure_rustc_version(w, e) ==
    IF ~Running(w) THEN w
    ELSE LET Check(w1, toks) ==
                 IF e.rustcRc # 0 THEN Raise(w1, e.rustcRc, "Exit")
                 ELSE IF Len(toks) < 2 THEN Raise(w1, 2, "Exit")
                 ELSE IF ~SemverValid(toks[2]) THEN Raise(w1, 1, "ValueError")
                 ELSE IF ~VersionAccepted(toks[2], MIN_RUSTC_VERSION)
                      THEN Raise(w1, 1, "Exit")
                 ELSE w1
         IN  Check(ctx_run(w, e, Chars("rustc --version"), EmptyDict, TRUE, e.rustcRc),
                   SplitWs(e.rustcOut))

\* get_cargo_flags(release, verbose)
get_cargo_flags(release, verbose) ==
    (IF release THEN <<Chars("--release")>> ELSE <<>>)
    \o (IF verbose THEN <<Chars("--verbose")>> ELSE <<>>)

CommandLine(argv) == Join(Chars(" "), [i \in 1..Len(argv) |-> quote(argv[i])])

\* The env dict cargo() builds from `git rev-parse HEAD`.
GitEnv(e) ==
    IF e.gitRc = 0 THEN [k \in {"X_CARGO_REVISION"} |-> Strip(e.gitOut)]
    ELSE EmptyDict

\* cargo(ctx, cmd, *args, wait=wait, env=kwenv, warn=warn); rc is the exit
\* code of the cargo process.
cargo(w, e, cargo_args, wait, kwenv, warn, rc) ==
    IF ~Running(w) THEN w
    ELSE LET Execute(w1) ==
                 IF wait
                 THEN ctx_run(w1, e, Chars("cargo ") \o CommandLine(cargo_args),
                              DictUpdate(kwenv, GitEnv(e)), warn, rc)
                 ELSE Raise([w1 EXCEPT !.trace =
                                Append(@, Event("exec",
                                                Join(Chars(" "),
                                                     <<Chars("cargo")>> \o cargo_args),
                                                DictUpdate(GitEnv(e), e.osEnv), <<>>))],
                            rc, "exec")
         IN  Execute(ctx_run(w, e, Chars("git rev-parse HEAD"), EmptyDict, TRUE, e.gitRc))

-----------------------------------------------------------------------------
(* src/tasks/build.py *)

EX_USAGE == 64

LineSep == Chars("\n")

\* COMPLETE_SHELLS, in the order of the dict literal
COMPLETE_SHELLS == <<"bash", "fish", "powershell", "zsh">>

RECURSIVE ReadLinesFrom(_, _, _)
\* the lines of s from position b on, after the lines acc
ReadLinesFrom(s, b, acc) ==
    LET n == IndexFrom(s, "\n", b)
    IN  IF n = 0
        THEN IF b > Len(s) THEN acc ELSE Append(acc, SubSeq(s, b, Len(s)))
        ELSE ReadLinesFrom(s, n + 1, Append(acc, SubSeq(s, b, n)))

\* f.readlines(): the lines of the file, each with its line ending
ReadLines(content) == ReadLinesFrom(content, 1, <<>>)

\* str.splitlines(): the lines without their line endings
SplitLines(s) ==
    LET Chomp(ls) ==
            AsSeq([i \in 1..Len(ls) |->
                      IF ls[i][Len(ls[i])] = "\n" THEN SubSeq(ls[i], 1, Len(ls[i]) - 1)
                      ELSE ls[i]])
    IN  Chomp(ReadLines(s))

\* readme_lines = [line.rstrip() for line in f.readlines()]
ReadmeLines(content) ==
    LET Stripped(ls) == AsSeq([i \in 1..Len(ls) |-> RStrip(ls[i])])
    IN  Stripped(ReadLines(content))

\* begin_idx: the first header line with "# Usage" in it (0 for None)
BeginIdx(lines) ==
    LET First(hits) == IF hits = {} THEN 0 ELSE CHOOSE i \in hits : \A j \in hits : i <= j
    IN  First({i \in 1..Len(lines) :
                  StartsWith(lines[i], Chars("#"))
                     /\ Contains(lines[i], Chars("# Usage"))})

\* end_idx: the first header line after begin_idx (0 for None)
EndIdx(lines) ==
    LET First(hits) == IF hits = {} THEN 0 ELSE CHOOSE i \in hits : \A j \in hits : i <= j
        After(b) ==
            First({i \in 1..Len(lines) :
                      b # 0 /\ i > b /\ StartsWith(lines[i], Chars("#"))})
    IN  After(BeginIdx(lines))

RECURSIVE DropToUsage(_)
\* while not help_lines[0].startswith("USAGE"): del help_lines[0]
\* (<<"IndexError">> when the list runs empty)
DropToUsage(help_lines) ==
    IF help_lines = <<>> THEN <<"IndexError">>
    ELSE IF StartsWith(help_lines[1], Chars("USAGE")) THEN help_lines
    ELSE DropToUsage(Tail(help_lines))

\* The help lines pasted into the README: [ok, lines]; ok is FALSE when
\* indexing help_lines raises IndexError.
HelpLines(stderr) ==
    LET Rest(from, rest) ==
            IF from = <<"IndexError">> \/ rest = <<>>
            THEN [ok |-> FALSE, lines |-> <<>>]
            ELSE [ok |-> TRUE,
                  lines |-> AsSeq([i \in 1..Len(rest) |->
                                      IF i = 1 THEN LStrip(rest[i]) ELSE rest[i]])]
        From(from) == Rest(from, Tail(from))
    IN  From(DropToUsage(SplitLines(Strip(stderr))))

\* readme_content with the help pasted after the Usage header and the old
\* region left in place
ReadmeContent_KeepRegion(readme_lines, begin_idx, end_idx, help_lines) ==
    LET help == Join(LineSep,
                     [i \in 1..Len(help_lines) |-> Chars("    ") \o help_lines[i]])
    IN  Join(LineSep, <<
            Join(LineSep, SubSeq(readme_lines, 1, begin_idx)),
            <<>>, help, <<>>,
            Join(LineSep, SubSeq(readme_lines, begin_idx + 1, Len(readme_lines))),
            <<>> >>)

\* readme_content: the README reassembled with the help inside, where
\* help = os.linesep.join('    ' + line for line in help_lines)
ReadmeContent(readme_lines, begin_idx, end_idx, help_lines) ==
    LET help == Join(LineSep,
                     [i \in 1..Len(help_lines) |-> Chars("    ") \o help_lines[i]])
    IN  Join(LineSep, <<
            Join(LineSep, SubSeq(readme_lines, 1, begin_idx)),
            <<>>, help, <<>>,
            Join(LineSep, SubSeq(readme_lines, end_idx, Len(readme_lines))),
            <<>> >>)

\* run_binary without the check of the exit code
run_binary_unchecked(w, e, args, release, rc) ==
    IF ~Running(w) THEN w
    ELSE
        cargo(w, e,
              <<Chars("run")>> \o get_cargo_flags(release, FALSE)
                  \o (IF args # <<>> THEN <<Chars("--")>> \o args ELSE <<>>),
              TRUE, EmptyDict, TRUE, rc)

\* run_binary(ctx, *args, release=release): rc is the binary's exit code
run_binary(w, e, args, release, rc) ==
    IF ~Running(w) THEN w
    ELSE
        LET cargo_args == <<Chars("run")>> \o get_cargo_flags(release, FALSE)
                          \o (IF args # <<>> THEN <<Chars("--")>> \o args ELSE <<>>)
            Check(w1) ==
                IF Running(w1) /\ ~(rc = 0 \/ rc = EX_USAGE)
                THEN Raise(w1, rc, "Exit")
                ELSE w1
        IN  Check(cargo(w, e, cargo_args, TRUE, EmptyDict, TRUE, rc))

\* bin without the call of ensure_rustc_version
bin_unchecked(w, e, release, verbose) ==
    cargo(w, e, <<Chars("build")>> \o get_cargo_flags(release, verbose),
          TRUE, EmptyDict, FALSE, e.cargoRc)

\* bin(ctx, release, verbose)
bin(w, e, release, verbose) ==
    IF ~Running(w) THEN w
    ELSE
        cargo(ensure_rustc_version(w, e), e,
              <<Chars("build")>> \o get_cargo_flags(release, verbose),
              TRUE, EmptyDict, FALSE, e.cargoRc)

\* PatchReadme with only begin_idx checked: without a next header the help
\* is pasted at the end of the file
PatchReadme_NoEndCheck(w, stderr) ==
    IF ~Running(w) THEN w
    ELSE LET Write(h, w1, lines, b, n) ==
                 IF b = 0 THEN Raise(w1, 2, "Exit")
                 ELSE Log([w1 EXCEPT !.fs.readme =
                              ReadmeContent(lines, b,
                                            IF n = 0 THEN Len(lines) + 1 ELSE n,
                                            h.lines)],
                          "write README.md")
             Patch(h, lines) ==
                 IF ~h.ok THEN Raise(w, 1, "IndexError")
                 ELSE Write(h, Log(w, "open README.md"), lines,
                            BeginIdx(lines), EndIdx(lines))
         IN  Patch(HelpLines(stderr), ReadmeLines(w.fs.readme))

\* The part of readme() that edits README.md, given the binary's stderr.
PatchReadme(w, stderr) ==
    IF ~Running(w) THEN w
    ELSE LET Write(h, w1, lines, b, n) ==
                 IF b = 0 \/ n = 0 THEN Raise(w1, 2, "Exit")
                 ELSE Log([w1 EXCEPT !.fs.readme =
                              ReadmeContent(lines, b, n, h.lines)],
                          "write README.md")
             Patch(h, lines) ==
                 IF ~h.ok THEN Raise(w, 1, "IndexError")
                 ELSE Write(h, Log(w, "open README.md"), lines,
                            BeginIdx(lines), EndIdx(lines))
         IN  Patch(HelpLines(stderr), ReadmeLines(w.fs.readme))

\* readme(ctx, release, verbose)
readme(w, e, release, verbose) ==
    IF ~Running(w) THEN w
    ELSE
        PatchReadme(run_binary(w, e, <<>>, release, e.binRc), e.binErr)

CompletionFile(shell) ==
    CASE shell = "bash" -> Chars("gisht.bash-completion")
      [] shell = "fish" -> Chars("gisht.fish")
      [] shell = "powershell" -> Chars("_gisht.ps1")
      [] shell = "zsh" -> Chars("_gisht")

BuildProfile(release) == IF release THEN "release" ELSE "debug"

RECURSIVE CompletionsLoop(_, _, _, _)
\* the loop of completions() over COMPLETE_SHELLS, from the i-th shell on;
\* fs.complete holds the (profile, shell) pairs whose script is written
CompletionsLoop(w, e, release, i) ==
    IF i > Len(COMPLETE_SHELLS) \/ ~Running(w) THEN w
    ELSE LET shell == COMPLETE_SHELLS[i]
             Write(w1) ==
                 IF ~Running(w1) THEN w1
                 ELSE CompletionsLoop(
                          Log([w1 EXCEPT !.fs.complete =
                                  @ \cup {<<BuildProfile(release), shell>>}],
                              "write " \o shell),
                          e, release, i + 1)
         IN  Write(run_binary(w, e, <<Chars("--complete"), Chars(shell)>>,
                              release, e.complRc[i]))

\* completions(ctx, release, verbose)
completions(w, e, release, verbose) ==
    IF ~Running(w) THEN w
    ELSE CompletionsLoop(
             IF BuildProfile(release) \in w.fs.completeDir THEN w
             ELSE Log([w EXCEPT !.fs.completeDir = @ \cup {BuildProfile(release)}],
                      "mkdir complete"),
             e, release, 1)

\* all(ctx, release, verbose)
build_all(w, e, release, verbose) ==
    IF ~Running(w) THEN w
    ELSE
        LET Then(w1, task(_)) == IF ~Running(w1) THEN w1 ELSE task(w1)
        IN  Then(bin(w, e, release, verbose),
                 LAMBDA w1 : Then(readme(w1, e, release, verbose),
                                  LAMBDA w2 : completions(w2, e, release, verbose)))

-----------------------------------------------------------------------------
(* src/tasks/__init__.py: the tasks before the build module was split off *)

\* build(ctx, release, verbose): build the binary, then patch the README.
\* The task returns an exit code instead of raising; Invoke ignores a task's
\* return value, so the run ends normally (err "returned").
build_init(w, e, release, verbose) ==
    LET Return(w2, w3) ==
            IF w3.err = "Exit" /\ Running(w2) THEN Raise(w3, 2, "returned") ELSE w3
        Patch(w2) ==
            Return(w2, IF Running(w2) /\ ~(e.binRc = 0 \/ e.binRc = EX_USAGE)
                       THEN Raise(w2, e.binRc, "returned")
                       ELSE PatchReadme(w2, e.binErr))
    IN  Patch(cargo(cargo(ensure_rustc_version(w, e), e,
                          <<Chars("build")>> \o get_cargo_flags(release, verbose),
                          TRUE, EmptyDict, FALSE, e.cargoRc),
                    e, <<Chars("run")>> \o get_cargo_flags(release, FALSE),
                    TRUE, EmptyDict, TRUE, e.binRc))

\* clean(ctx, release, verbose)
clean(w, e, release, verbose) ==
    cargo(w, e, <<Chars("clean")>> \o get_cargo_flags(release, verbose),
          FALSE, EmptyDict, FALSE, e.cargoRc)

\* test(ctx, release, verbose)
test(w, e, release, verbose) ==
    cargo(ensure_rustc_version(w, e), e,
          <<Chars("test"), Chars("--no-fail-fast")>> \o get_cargo_flags(release, verbose),
          FALSE, EmptyDict, FALSE, e.cargoRc)

\* run(ctx): cargo run with the arguments of the command line
run(w, e, argv) ==
    cargo(w, e, <<Chars("run")>> \o argv, FALSE, EmptyDict, FALSE, e.binRc)

-----------------------------------------------------------------------------
(* src/tasks.py: the first version of the tasks *)

MIN_RUSTC_VERSION_tasks_py == Chars("1.12.0")

\* ensure_rustc_version(ctx) of tasks.py: ctx.run without warn, and the
\* output unpacked into exactly three parts
ensure_rustc_version_tasks_py(w, e) ==
    IF ~Running(w) THEN w
    ELSE LET Check(w1, toks) ==
                 IF ~Running(w1) THEN w1
                 ELSE IF Len(toks) < 3 THEN Raise(w1, 1, "ValueError")
                 ELSE IF ~SemverValid(toks[2]) THEN Raise(w1, 1, "ValueError")
                 ELSE IF ~VersionAccepted(toks[2], MIN_RUSTC_VERSION_tasks_py)
                      THEN Raise(w1, 1, "Exit")
                 ELSE w1
         IN  Check(ctx_run(w, e, Chars("rustc --version"), EmptyDict, FALSE, e.rustcRc),
                   SplitWs(e.rustcOut))

\* cargo(ctx, cmd, *args, wait=wait) of tasks.py: no revision is passed
cargo_tasks_py(w, e, cargo_args, wait, rc) ==
    IF ~Running(w) THEN w
    ELSE IF wait
         THEN ctx_run(w, e, Chars("cargo ") \o CommandLine(cargo_args),
                      EmptyDict, FALSE, rc)
         ELSE Raise([w EXCEPT !.trace =
                        Append(@, Event("exec",
                                        Join(Chars(" "), <<Chars("cargo")>> \o cargo_args),
                                        e.osEnv, <<>>))],
                    rc, "exec")

\* build(ctx, release, verbose) of tasks.py
build_tasks_py(w, e, release, verbose) ==
    cargo_tasks_py(ensure_rustc_version_tasks_py(w, e), e,
                   <<Chars("build")>> \o get_cargo_flags(release, verbose),
                   FALSE, e.cargoRc)

\* test(ctx, release, verbose) of tasks.py
test_tasks_py(w, e, release, verbose) ==
    cargo_tasks_py(ensure_rustc_version_tasks_py(w, e), e,
                   <<Chars("test"), Chars("--no-fail-fast")>>
                       \o get_cargo_flags(release, verbose),
                   FALSE, e.cargoRc)

-----------------------------------------------------------------------------
(* The environment of a run, and the runs of the build tasks *)

GoodHelp == Chars("gisht 0.1\n\nUSAGE:\n    gisht <GIST>\n\nOPTIONS:\n    -h\n")

\* The [package] section of Cargo.toml; authors holds the first author.
GoodManifest ==
    [k \in {"name", "version", "description", "homepage", "license",
             "authors", "repository"} |->
        CASE k = "name" -> Chars("gisht")
          [] k = "version" -> Chars("0.1")
          [] k = "description" -> Chars("Gists in the shell")
          [] k = "homepage" -> Chars("http://x.io/gisht")
          [] k = "license" -> Chars("GPL")
          [] k = "authors" -> Chars("K K <k@x.io>")
          [] k = "repository" -> Chars("http://x.io/repo")]

\* An environment in which every external program succeeds.
DefaultEnv ==
    [rustcRc  |-> 0,
     rustcOut |-> Chars("rustc 1.18.0 (03fc9d6)\n"),
     gitRc    |-> 0,
     gitOut   |-> Chars("4f1c2a9\n"),
     osEnv    |-> [k \in {"PATH"} |-> Chars("/usr/bin")],
     cargoRc  |-> 0,
     binRc    |-> EX_USAGE,
     binErr   |-> GoodHelp,
     complRc  |-> <<0, 0, 0, 0>>,
     sysPlatform |-> Chars("linux"),
     whichRc  |-> [p \in {"fpm", "rpm", "strip", "uname"} |-> 0],
     unameS   |-> [rc |-> 0, out |-> Chars("Linux\n")],
     unameM   |-> [rc |-> 0, out |-> Chars("x86_64\n")],
     stripRc  |-> 0,
     shaOut   |-> Chars("4f1c2a9\n"),
     fpmRc    |-> 0,
     fpmOut   |-> <<116, 97, 114>>,
     mkdirOk  |-> TRUE,
     rmtreeErr |-> "none",
     now      |-> 7,
     tmpName  |-> Chars("x3k9")]

DefaultArgs ==
    [release |-> FALSE, verbose |-> FALSE, wait |-> TRUE, kwenv |-> EmptyDict,
     argv |-> <<>>, platform |-> <<>>, buf_size |-> 65536]

InitFs ==
    [readme |-> Chars("# gisht\n\n## Usage\n\n    old\n\n## License\n"),
     completeDir |-> {}, complete |-> {},
     cargo |-> GoodManifest, release |-> "absent", files |-> EmptyDict,
     tmp |-> EmptyDict, staged |-> {}]

\* The state before any task has run, with the project directory f.
Start(f) ==
    /\ fs = f
    /\ before = f
    /\ trace = <<>>
    /\ exit = [code |-> 0, err |-> "none"]
    /\ inv = [task |-> "none", args |-> DefaultArgs, e |-> DefaultEnv]
    /\ nruns = 0

\* One run of a task that leaves the world w, the max-th at most.
Invoke(max, task, args, e, w) ==
    /\ nruns < max
    /\ \E end \in {w} :
          /\ fs' = end.fs
          /\ before' = fs
          /\ trace' = end.trace
          /\ exit' = [code |-> end.code,
                      err |-> IF Running(end) THEN "none" ELSE end.err]
    /\ inv' = [task |-> task, args |-> args, e |-> e]
    /\ nruns' = nruns + 1

\* The exit code of the Invoke process after the last run.
ExitCode == IF exit.err \in {"none", "returned"} THEN 0 ELSE exit.code

\* Version numbers <<major, minor, patch>> rustc may report
Versions == (0..MaxMajor) \X {9, 12, 18, 100} \X {0, 1}

VersionString(ma, mi, pa) ==
    DecStr(ma) \o Chars(".") \o DecStr(mi) \o Chars(".") \o DecStr(pa)

\* Second tokens of the output of `rustc --version`: releases, pre-releases
\* and strings that are no semantic version
VersionTokens ==
    {VersionString(v[1], v[2], v[3]) : v \in Versions}
    \cup {VersionString(1, v[2], v[3]) \o Chars("-beta") : v \in Versions}
    \cup {Chars("1.18"), Chars("unknown"), Chars("01.18.0")}

\* Environments that differ in what rustc does: the outputs of
\* `rustc --version` and its exit codes
RustcEnvs ==
    {[DefaultEnv EXCEPT !.rustcOut = o] :
        o \in {Chars("rustc ") \o t \o Chars(" (03fc9d6)\n") : t \in VersionTokens}
                \cup {Chars("rustc ") \o t \o Chars("\n") : t \in VersionTokens}
                \cup {Chars("rustc\n"), <<>>}}
    \cup {[DefaultEnv EXCEPT !.rustcRc = rc, !.rustcOut = <<>>] : rc \in {1, 127}}

\* Environments that differ in what git and cargo do and in os.environ
CargoEnvs ==
    {[DefaultEnv EXCEPT !.gitRc = g[1], !.gitOut = g[2], !.osEnv = oe,
                        !.cargoRc = c, !.binRc = c] :
        g \in {<<0, Chars("4f1c2a9\n")>>, <<0, Chars("  9b0d3e7 \n")>>,
                <<128, Chars("fatal: not a git repository\n")>>},
        oe \in {[k \in {"PATH"} |-> Chars("/usr/bin")],
                 [k \in {"PATH", "X_CARGO_REVISION"} |->
                     IF k = "PATH" THEN Chars("/usr/bin") ELSE Chars("inherited")]},
        c \in {0, 101}}

\* The (environment, flags) pairs of the runs of the build tasks
CargoRuns ==
    CargoEnvs \X {[DefaultArgs EXCEPT !.release = r, !.verbose = r] : r \in BOOLEAN}
BuildRuns == (RustcEnvs \X {DefaultArgs}) \cup CargoRuns

TaskBin(max) ==
    \E r \in BuildRuns : LET e == r[1] a == r[2] IN
        Invoke(max, "bin", a, e, bin(World(fs), e, a.release, a.verbose))

\* `inv build.readme`: Invoke runs the pre-task bin, with its defaults, first
TaskReadme(runs, max) ==
    \E r \in runs : LET e == r[1] a == r[2] IN
        Invoke(max, "readme", a, e,
               readme(bin(World(fs), e, FALSE, FALSE), e, a.release, a.verbose))

\* `inv build.completions`: Invoke runs the pre-task bin first
TaskCompletions(runs, max) ==
    \E r \in runs : LET e == r[1] a == r[2] IN
        Invoke(max, "completions", a, e,
               completions(bin(World(fs), e, FALSE, FALSE), e, a.release, a.verbose))

TaskAll(runs, max) ==
    \E r \in runs : LET e == r[1] a == r[2] IN
        Invoke(max, "all", a, e, build_all(World(fs), e, a.release, a.verbose))

TaskBuildInit(runs, max) ==
    \E r \in runs : LET e == r[1] a == r[2] IN
        Invoke(max, "build_init", a, e, build_init(World(fs), e, a.release, a.verbose))

TaskClean(max) ==
    \E r \in CargoRuns : LET e == r[1] a == r[2] IN
        Invoke(max, "clean", a, e, clean(World(fs), e, a.release, a.verbose))

TaskTest(max) ==
    \E r \in BuildRuns : LET e == r[1] a == r[2] IN
        Invoke(max, "test", a, e, test(World(fs), e, a.release, a.verbose))

TaskRun(max) ==
    \E e \in CargoEnvs, argv \in {<<>>, <<Chars("--help")>>} :
        Invoke(max, "run", [DefaultArgs EXCEPT !.argv = argv], e, run(World(fs), e, argv))

TaskBuildTasksPy(max) ==
    \E r \in BuildRuns : LET e == r[1] a == r[2] IN
        Invoke(max, "build_tasks_py", a, e,
               build_tasks_py(World(fs), e, a.release, a.verbose))

TaskTestTasksPy(max) ==
    \E r \in BuildRuns : LET e == r[1] a == r[2] IN
        Invoke(max, "test_tasks_py", a, e,
               test_tasks_py(World(fs), e, a.release, a.verbose))

\* A call of cargo() itself, with any wait and any env keyword argument
CallCargo(max) ==
    \E e \in CargoEnvs, wait \in BOOLEAN,
       kwenv \in {EmptyDict,
                  [k \in {"X_CARGO_REVISION"} |-> Chars("caller")],
                  [k \in {"RUST_BACKTRACE"} |-> Chars("1")]} :
        Invoke(max, "cargo", [DefaultArgs EXCEPT !.wait = wait, !.kwenv = kwenv], e,
               cargo(World(fs), e, <<Chars("build")>>, wait, kwenv, FALSE, e.cargoRc))

InitBuild == Start(InitFs)

NextBuild ==
    \/ TaskBin(MaxBuildRuns)
    \/ TaskReadme(CargoRuns, MaxBuildRuns)
    \/ TaskCompletions(CargoRuns, MaxBuildRuns)
    \/ TaskAll(CargoRuns, MaxBuildRuns)
    \/ TaskBuildInit(BuildRuns, MaxBuildRuns)
    \/ TaskClean(MaxBuildRuns)
    \/ TaskTest(MaxBuildRuns)
    \/ TaskRun(MaxBuildRuns)
    \/ TaskBuildTasksPy(MaxBuildRuns)
    \/ TaskTestTasksPy(MaxBuildRuns)
    \/ CallCargo(MaxBuildRuns)

SpecBuild == InitBuild /\ [][NextBuild]_vars

-----------------------------------------------------------------------------
(* Properties of the build tasks (SpecBuild) *)

\* The tasks that call ensure_rustc_version before cargo
GatedTasks ==
    {"bin", "test", "build_init", "build_tasks_py", "test_tasks_py",
     "readme", "completions", "all"}

TasksPy == {"build_tasks_py", "test_tasks_py"}

IsCargo(ev) == ev.kind \in {"run", "exec"} /\ StartsWith(ev.cmd, Chars("cargo"))

IsRustc(ev) == ev.kind = "run" /\ ev.cmd = Chars("rustc --version")

CargoStarted == \E i \in 1..Len(trace) : IsCargo(trace[i])

\* The minimum version of the last task, as numbers
MinTriple == IF inv.task \in TasksPy THEN <<1, 12, 0>> ELSE <<1, 18, 0>>

MinString ==
    IF inv.task \in TasksPy THEN MIN_RUSTC_VERSION_tasks_py ELSE MIN_RUSTC_VERSION

TripleGeq(a, b) ==
    \/ a[1] > b[1]
    \/ a[1] = b[1] /\ a[2] > b[2]
    \/ a[1] = b[1] /\ a[2] = b[2] /\ a[3] >= b[3]

\* The second token of rustc's output is the release ma.mi.pa, or a
\* pre-release of it, and that version is at least the minimum in the order
\* of semantic versions (a pre-release comes before its release).
ReportsVersionAtLeast(min) ==
    LET toks == SplitWs(inv.e.rustcOut)
    IN  /\ inv.e.rustcRc = 0
        /\ Len(toks) >= 2
        /\ \E v \in Versions :
              \/ /\ toks[2] = VersionString(v[1], v[2], v[3])
                 /\ TripleGeq(v, min)
              \/ /\ toks[2] = VersionString(v[1], v[2], v[3]) \o Chars("-beta")
                 /\ TripleGeq(v, min)
                 /\ v # min

\* C1: in the build and test tasks a cargo process is started only after
\* `rustc --version` has run, exited with 0 and reported, as its second
\* token, a version that is at least MIN_RUSTC_VERSION.
C1_CargoOnlyAfterVersionCheck ==
    inv.task \in GatedTasks =>
        \A i \in 1..Len(trace) :
            IsCargo(trace[i]) =>
                /\ \E j \in 1..(i - 1) : IsRustc(trace[j])
                /\ ReportsVersionAtLeast(MinTriple)

\* C1 witness: the test task has replaced itself by cargo test.
C1_Witness ==
    /\ inv.task = "test"
    /\ \E i \in 1..Len(trace) :
          trace[i].kind = "exec" /\ StartsWith(trace[i].cmd, Chars("cargo test"))

\* rustc ran successfully and reported a version where the task looks for it
VersionReported ==
    /\ inv.task \in {"bin", "test", "build_tasks_py", "test_tasks_py"}
    /\ inv.e.rustcRc = 0
    /\ Len(SplitWs(inv.e.rustcOut)) >= (IF inv.task \in TasksPy THEN 3 ELSE 2)

ReportedVersion == SplitWs(inv.e.rustcOut)[2]

\* C6 as stated: the reported version is accepted (cargo is started) exactly
\* when its string is greater than or equal to the MIN_RUSTC_VERSION string.
C6_AcceptedIffStringGeq ==
    VersionReported => (CargoStarted <=> StrGeq(ReportedVersion, MinString))

\* C6 amended: the reported version is accepted exactly when it is a
\* semantic version that is at least MIN_RUSTC_VERSION in the order of
\* semantic versions: major, minor and patch compared as numbers, and a
\* pre-release before its release.
C6_AcceptedIffSemverGeq ==
    VersionReported => (CargoStarted <=> ReportsVersionAtLeast(MinTriple))

\* C6 witness: a version is accepted whose string is less than the minimum's
\* (1.100.0 against 1.18.0).
C6_Witness ==
    /\ VersionReported
    /\ CargoStarted
    /\ StrLess(ReportedVersion, MinString)

\* C8 as stated: whenever `git rev-parse HEAD` succeeds, the cargo process
\* that cargo() starts, waited for or not, has X_CARGO_REVISION set to the
\* stripped output of git, whatever the caller or os.environ set it to.
C8_RevisionAlwaysPassed ==
    (inv.task \notin TasksPy /\ inv.task # "none" /\ inv.e.gitRc = 0) =>
        \A i \in 1..Len(trace) :
            IsCargo(trace[i]) =>
                /\ "X_CARGO_REVISION" \in DOMAIN trace[i].env
                /\ trace[i].env["X_CARGO_REVISION"] = Strip(inv.e.gitOut)

-----------------------------------------------------------------------------
(* The runs that patch the README (SpecReadme) *)

RECURSIVE SeqsUpTo(_, _)
\* the sequences over S of length at most n
SeqsUpTo(S, n) ==
    IF n = 0 THEN {<<>>}
    ELSE LET shorter == SeqsUpTo(S, n - 1)
         IN  shorter \cup {Append(q, x) : q \in {r \in shorter : Len(r) = n - 1}, x \in S}

\* README files of at most MaxReadme lines, the last line with or without
\* its line ending. The lines: the Usage header, another header, text with
\* trailing blanks, an empty line, and indented text that holds the marker
\* without being a header
Readmes ==
    LET ReadmeLineSet ==
            {Chars("## Usage"), Chars("# Etc"), Chars("text  "), <<>>, Chars("  # Usage")}
        texts == SeqsUpTo(ReadmeLineSet, MaxReadme)
    IN  {Join(LineSep, ls) \o LineSep : ls \in texts \ {<<>>}}
        \cup {Join(LineSep, ls) : ls \in texts}

\* The runs of readme. What the binary prints on stderr: its help, a help
\* without a USAGE line, a help that ends with the USAGE line; and the exit
\* codes of the binary
ReadmeRuns ==
    ({[DefaultEnv EXCEPT !.binErr = h] :
         h \in {GoodHelp,
                 Chars("USAGE:\n  gisht [-v]\n\nARGS:\n    <GIST>\n"),
                 Chars("error: no help\n"),
                 Chars("gisht 0.1\nUSAGE:\n")}}
        \cup {[DefaultEnv EXCEPT !.binRc = rc] : rc \in {0, 1}})
    \X {DefaultArgs}

InitReadme == \E r \in Readmes : Start([InitFs EXCEPT !.readme = r])

NextReadme ==
    \/ TaskReadme(ReadmeRuns, MaxReadmeRuns)
    \/ TaskAll({<<DefaultEnv, DefaultArgs>>}, MaxReadmeRuns)
    \/ TaskBuildInit({[DefaultEnv EXCEPT !.binRc = rc] : rc \in {0, 1}} \X {DefaultArgs},
                     MaxReadmeRuns)
    \* the runs of completions, by the exit codes of the binary for each shell
    \/ TaskCompletions(
          {<<[DefaultEnv EXCEPT !.complRc = c],
             [DefaultArgs EXCEPT !.release = (c[1] # 0)]>> :
              c \in {<<0, 0, 0, 0>>, <<0, 0, 1, 0>>, <<EX_USAGE, 2, 0, 0>>}},
          MaxReadmeRuns)

SpecReadme == InitReadme /\ [][NextReadme]_vars

-----------------------------------------------------------------------------
(* Properties of the README patching (SpecReadme) *)

\* The lines of README.md as they were before the last run
OriginalLines == SplitLines(before.readme)

\* Header lines with "# Usage" in them
UsageHeaders(lines) ==
    {i \in 1..Len(lines) :
        StartsWith(lines[i], Chars("#")) /\ Contains(lines[i], Chars("# Usage"))}

\* A Usage header is followed later by another header line
HasUsageRegion(lines) ==
    \E i \in UsageHeaders(lines) :
        \E j \in (i + 1)..Len(lines) : StartsWith(lines[j], Chars("#"))

UsageHeader(lines) ==
    CHOOSE i \in UsageHeaders(lines) : \A k \in UsageHeaders(lines) : i <= k

NextHeader(lines) ==
    CHOOSE j \in (UsageHeader(lines) + 1)..Len(lines) :
        /\ StartsWith(lines[j], Chars("#"))
        /\ \A k \in (UsageHeader(lines) + 1)..(j - 1) : ~StartsWith(lines[k], Chars("#"))

\* The lines of stderr after its USAGE line, the first of them left-stripped,
\* each prefixed with four spaces
PastedHelp(stderr) ==
    LET ls    == SplitLines(stderr)
        u     == CHOOSE i \in 1..Len(ls) :
                     /\ StartsWith(ls[i], Chars("USAGE"))
                     /\ \A k \in 1..(i - 1) : ~StartsWith(ls[k], Chars("USAGE"))
        after == SubSeq(ls, u + 1, Len(ls))
    IN  AsSeq([i \in 1..Len(after) |->
                  Chars("    ") \o (IF i = 1 THEN LStrip(after[i]) ELSE after[i])])

\* The file the readme task is to write: the lines up to the Usage header, an
\* empty line, the help, an empty line, the lines from the next header on.
RewrittenReadme(lines, stderr) ==
    Join(LineSep,
         SubSeq(lines, 1, UsageHeader(lines))
         \o <<<<>>>> \o PastedHelp(stderr) \o <<<<>>>>
         \o SubSeq(lines, NextHeader(lines), Len(lines)))
    \o LineSep

ReadmeTaskCompleted == inv.task = "readme" /\ exit.err = "none"

ReadmeOpened ==
    \E i \in 1..Len(trace) :
        trace[i].kind = "step" /\ trace[i].cmd = Chars("open README.md")

\* C3 as stated: a completed readme task on a README with a Usage header and
\* a header after it leaves exactly the original lines up to the Usage header,
\* an empty line, the help text, an empty line, and the original lines from
\* the next header on, ended by a newline.
C3_ReadmeRewrittenAroundOriginalLines ==
    (ReadmeTaskCompleted /\ HasUsageRegion(OriginalLines)) =>
        fs.readme = RewrittenReadme(OriginalLines, inv.e.binErr)

\* C10 as stated: on a README without a Usage header, or without a header after
\* it, the readme task ends with exit code 2 and leaves the README as it was.
C10_NoRegionExitsWith2 ==
    (inv.task = "readme" /\ ~HasUsageRegion(OriginalLines)) =>
        /\ ExitCode = 2
        /\ fs.readme = before.readme

\* C10 amended: on such a README the readme task leaves README.md unchanged;
\* it raises Exit(2) if it gets as far as opening README.md, and otherwise
\* has ended earlier with the non-zero exit code of the step that failed.
C10_NoRegionLeavesReadme ==
    (inv.task = "readme" /\ ~HasUsageRegion(OriginalLines)) =>
        /\ fs.readme = before.readme
        /\ ReadmeOpened => exit = [code |-> 2, err |-> "Exit"]
        /\ ~ReadmeOpened => ExitCode # 0

\* C10 witness: a README with a Usage header and no header after it was opened
\* and the task has ended with exit code 2.
C10_Witness ==
    /\ inv.task = "readme"
    /\ UsageHeaders(OriginalLines) # {}
    /\ ~HasUsageRegion(OriginalLines)
    /\ ReadmeOpened
    /\ ExitCode = 2


\* C3, for a README whose lines have no trailing whitespace: there the
\* rewritten file is exactly as C3 states.
C3_HoldsWithoutTrailingWhitespace ==
    (/\ ReadmeTaskCompleted
     /\ HasUsageRegion(OriginalLines)
     /\ \A i \in 1..Len(OriginalLines) : RStrip(OriginalLines[i]) = OriginalLines[i]) =>
        fs.readme = RewrittenReadme(OriginalLines, inv.e.binErr)

\* The lines of README.md as the last run left them
FinalLines == SplitLines(fs.readme)

ReadmeWritten ==
    \E i \in 1..Len(trace) :
        trace[i].kind = "step" /\ trace[i].cmd = Chars("write README.md")

\* The first u lines of now are those of orig, and the last lines of now are
\* the lines of orig from its n-th on
SameOutside(orig, now, u, n) ==
    /\ Len(now) >= u + (Len(orig) - n + 1)
    /\ SubSeq(now, 1, u) = SubSeq(orig, 1, u)
    /\ SubSeq(now, Len(now) - (Len(orig) - n), Len(now)) = SubSeq(orig, n, Len(orig))

\* C11 as stated: after a run that has written README.md every line up to and
\* including the Usage header, and every line from the next header to the end
\* of the file, has exactly the content it had before the run.
C11_LinesOutsideRegionUnchanged ==
    (ReadmeWritten /\ HasUsageRegion(OriginalLines)) =>
        SameOutside(OriginalLines, FinalLines,
                    UsageHeader(OriginalLines), NextHeader(OriginalLines))

\* C11, up to trailing whitespace: the lines outside the region are written
\* back as line.rstrip() of what they were.
C11_LinesOutsideRegionRStripped ==
    (ReadmeWritten /\ HasUsageRegion(OriginalLines)) =>
        SameOutside(AsSeq([i \in 1..Len(OriginalLines) |-> RStrip(OriginalLines[i])]),
                    FinalLines,
                    UsageHeader(OriginalLines), NextHeader(OriginalLines))

\* The readme task run once more on the README as it is now, with the
\* environment and the flags of the last run
SecondRun ==
    readme(bin(World(fs), inv.e, FALSE, FALSE), inv.e,
           inv.args.release, inv.args.verbose)

\* C12: after a readme task that succeeded, a second run of the task with the
\* same help output succeeds and leaves README.md as the first run left it.
C12_SecondRunLeavesReadme ==
    ReadmeTaskCompleted =>
        /\ Running(SecondRun)
        /\ SecondRun.fs.readme = fs.readme

\* C12 witness: a first run that changed README.md, and a second run that
\* writes it again with the same content.
C12_Witness ==
    /\ ReadmeTaskCompleted
    /\ fs.readme # before.readme
    /\ Running(SecondRun)
    /\ SecondRun.trace[Len(SecondRun.trace)].cmd = Chars("write README.md")
    /\ SecondRun.fs.readme = fs.readme

\* run_binary was called: `cargo run` is among the commands of the run
BinaryRan ==
    \E i \in 1..Len(trace) :
        trace[i].kind = "run" /\ StartsWith(trace[i].cmd, Chars("cargo run"))

\* The exit codes of the binary run_binary returns normally for
Accepted(rc) == rc = 0 \/ rc = EX_USAGE

\* The first shell for which the binary ends with another exit code (0: none)
FailingShell(c) ==
    IF \A i \in 1..Len(c) : Accepted(c[i]) THEN 0
    ELSE CHOOSE i \in 1..Len(c) : ~Accepted(c[i]) /\ \A k \in 1..(i - 1) : Accepted(c[k])

\* The completion script of the i-th shell was written by the last run
ScriptWritten(i) ==
    /\ \E k \in 1..Len(trace) :
          trace[k].kind = "step" /\ trace[k].cmd = Chars("write " \o COMPLETE_SHELLS[i])
    /\ <<BuildProfile(inv.args.release), COMPLETE_SHELLS[i]>> \in fs.complete

\* The last run has not written the i-th shell's completion script, which is
\* there iff it was there before
ScriptUntouched(i) ==
    /\ \A k \in 1..Len(trace) :
          ~(trace[k].kind = "step" /\ trace[k].cmd = Chars("write " \o COMPLETE_SHELLS[i]))
    /\ \A p \in {"debug", "release"} :
          <<p, COMPLETE_SHELLS[i]>> \in fs.complete
              <=> <<p, COMPLETE_SHELLS[i]>> \in before.complete

\* C13: run_binary returns normally for the exit codes 0 and EX_USAGE of the
\* binary and for no other; for another exit code the task ends with
\* Exit(that code), the readme task without having opened or changed
\* README.md, the completions task with no completion script written for the
\* failing shell or a later one.
C13_OnlyZeroAndUsageAccepted ==
    /\ (inv.task = "readme" /\ BinaryRan) =>
          IF Accepted(inv.e.binRc)
          THEN ReadmeOpened \/ exit.err = "IndexError"
          ELSE /\ exit = [code |-> inv.e.binRc, err |-> "Exit"]
               /\ ~ReadmeOpened
               /\ fs.readme = before.readme
    /\ (inv.task = "completions" /\ BinaryRan) =>
          LET Ended(f) ==
                  IF f = 0
                  THEN exit.err = "none"
                          /\ \A i \in 1..Len(COMPLETE_SHELLS) : ScriptWritten(i)
                  ELSE /\ exit = [code |-> inv.e.complRc[f], err |-> "Exit"]
                       /\ \A i \in 1..(f - 1) : ScriptWritten(i)
                       /\ \A i \in f..Len(COMPLETE_SHELLS) : ScriptUntouched(i)
          IN  Ended(FailingShell(inv.e.complRc))

\* C13 witness: the binary ended with EX_USAGE for the first shell, whose
\* script was written, and with another exit code for a later shell, which
\* ended the completions task with that code.
C13_Witness ==
    /\ inv.task = "completions"
    /\ inv.e.complRc[1] = EX_USAGE
    /\ ScriptWritten(1)
    /\ FailingShell(inv.e.complRc) > 1
    /\ exit = [code |-> inv.e.complRc[FailingShell(inv.e.complRc)], err |-> "Exit"]


-----------------------------------------------------------------------------
(* Insertion-ordered dicts (keyword arguments, flags): sequences of        *)
(* <<key, value>> pairs with distinct keys                                  *)

OdHas(d, k) == \E i \in 1..Len(d) : d[i][1] = k

OdGet(d, k) == d[CHOOSE i \in 1..Len(d) : d[i][1] = k][2]

\* d[k] = v, and d.update(k=v)
OdPut(d, k, v) ==
    IF OdHas(d, k)
    THEN AsSeq([i \in 1..Len(d) |-> IF d[i][1] = k THEN <<k, v>> ELSE d[i]])
    ELSE Append(d, <<k, v>>)

\* d.setdefault(k, v)
OdSetDefault(d, k, v) == IF OdHas(d, k) THEN d ELSE Append(d, <<k, v>>)

-----------------------------------------------------------------------------
(* src/tasks/release/fpm.py *)

BIN == Chars("gisht")

SOURCE_DIR == Chars("target/release")

OUTPUT_DIR == Chars("release")

LINUX_INSTALL_DIR == Chars("/usr/bin")

UNKNOWN_ARCH == Chars("unknown")

\* Path(dir) / name
PathJoin(dir, name) == dir \o Chars("/") \o name

\* A file written at path: below the release directory, or a temporary file
WriteFile(w, path, content) ==
    IF StartsWith(path, PathJoin(OUTPUT_DIR, <<>>))
    THEN [w EXCEPT !.fs.files = DictUpdate(@, [p \in {path} |-> content])]
    ELSE [w EXCEPT !.fs.tmp = DictUpdate(@, [p \in {path} |-> content])]

\* which(ctx, prog): the Result of `which prog` is true iff its exit code is 0
which(w, e, prog) ==
    IF ~Running(w) THEN w
    ELSE
        ctx_run(w, e, Chars("which ") \o Chars(prog), EmptyDict, TRUE, e.whichRc[prog])

Found(e, prog) == e.whichRc[prog] = 0

\* ensure_fpm(ctx)
ensure_fpm(w, e) ==
    IF ~Running(w) THEN w
    ELSE
        LET Check(w1) ==
                IF Running(w1) /\ ~Found(e, "fpm") THEN Raise(w1, 1, "Exit") ELSE w1
        IN  Check(which(w, e, "fpm"))

\* ensure_output_dir()
ensure_output_dir(w, e) ==
    IF ~Running(w) THEN w
    ELSE LET Ensure(w1) ==
                 CASE w.fs.release = "dir" -> w1
                   [] w.fs.release = "file" -> Raise(w1, 2, "Exit")
                   [] OTHER ->
                        IF e.mkdirOk
                        THEN Log([w1 EXCEPT !.fs.release = "dir"], "mkdir release")
                        ELSE Raise(w1, 2, "Exit")
         IN  Ensure(Log(w, "stat release"))

\* prepare_release(ctx)
prepare_release(w, e) ==
    IF ~Running(w) THEN w
    ELSE
        LET \* The files EXTRA_FILES matches: LICENSE, README.md and the
            \* completion scripts of the release build, by their names in
            \* SOURCE_DIR
            ExtraFiles(f) ==
                {Chars("LICENSE"), Chars("README.md")}
                    \cup {CompletionFile(c[2]) : c \in {x \in f.complete : x[1] = "release"}}
            Copy(w3) ==
                IF ~Running(w3) THEN w3
                ELSE Log([w3 EXCEPT !.fs.staged = @ \cup ExtraFiles(w3.fs)],
                         "copy extra files")
            Strip_(w2) ==
                Copy(IF Found(e, "strip")
                     THEN ctx_run(w2, e, Chars("strip ") \o PathJoin(SOURCE_DIR, BIN),
                                  EmptyDict, FALSE, e.stripRc)
                     ELSE w2)
            Built(w1) == IF ~Running(w1) THEN w1 ELSE Strip_(which(w1, e, "strip"))
        IN  Built(build_all(w, e, TRUE, FALSE))

\* Bundler._get_architecture(): the world after it and the string returned
get_architecture(w, e) ==
    IF ~Running(w) THEN [w |-> w, arch |-> <<>>]
    ELSE
        LET Named(w3) ==
                IF ~(e.unameS.rc = 0 /\ e.unameM.rc = 0)
                THEN [w |-> w3, arch |-> UNKNOWN_ARCH]
                ELSE [w |-> w3,
                      arch |-> Strip(e.unameM.out) \o Chars("-")
                                  \o Lower(Strip(e.unameS.out))]
            Uname(w1) ==
                IF ~Found(e, "uname") THEN [w |-> w1, arch |-> UNKNOWN_ARCH]
                ELSE Named(ctx_run(ctx_run(w1, e, Chars("uname -s"), EmptyDict, TRUE,
                                           e.unameS.rc),
                                   e, Chars("uname -m"), EmptyDict, TRUE, e.unameM.rc))
        IN  Uname(which(w, e, "uname"))

\* A Bundler that takes no notice of the ARCH environment variable
Bundler_ignoring_ARCH(w, e) ==
    IF ~Running(w) THEN [w |-> w, arch |-> <<>>]
    ELSE get_architecture(w, e)

\* Bundler(ctx, target): the world after the constructor and self._arch
Bundler(w, e) ==
    IF ~Running(w) THEN [w |-> w, arch |-> <<>>]
    ELSE IF "ARCH" \in DOMAIN e.osEnv THEN [w |-> w, arch |-> e.osEnv["ARCH"]]
    ELSE get_architecture(w, e)

\* PackageInfo.FIELDS, in the order of the dict
PackageFields == <<"name", "version", "description", "url", "license", "maintainer">>

\* The key of Cargo.toml's [package] a field is read from
ManifestKey(field) ==
    CASE field = "url" -> "homepage"
      [] field = "maintainer" -> "authors"
      [] OTHER -> field

\* PackageInfo._get_field_value(field), for a field the manifest has; the
\* maintainer is lambda v: v[:v.find('<') - 1] if '<' in v else v
FieldValue(pkg, field) ==
    LET v == pkg[ManifestKey(field)]
    IN  IF field # "maintainer" \/ IndexOf(v, "<") = 0 THEN v
        ELSE IF IndexOf(v, "<") = 1 THEN SubSeq(v, 1, Len(v) - 1)
        ELSE SubSeq(v, 1, IndexOf(v, "<") - 2)

\* The bundle name without the architecture
bundle_name_without_arch(pkg, arch) ==
    pkg["name"] \o Chars("-") \o pkg["version"]

\* Bundler.bundle_name
bundle_name(pkg, arch) ==
    pkg["name"] \o Chars("-") \o pkg["version"] \o Chars("-") \o arch

RECURSIVE SetPackageDefaults(_, _, _)
\* for key, value in self._package.items(): flags.setdefault(key, value)
SetPackageDefaults(flags, pkg, i) ==
    IF i > Len(PackageFields) THEN flags
    ELSE SetPackageDefaults(
             OdSetDefault(flags, PackageFields[i], FieldValue(pkg, PackageFields[i])),
             pkg, i + 1)

\* format_flag(name, value)
format_flag(name, value) ==
    Chars("-") \o (IF Len(name) = 1 THEN Chars(name) ELSE Chars("-") \o Chars(name))
        \o Chars(" ") \o quote(value)

\* source_files: the binary and the files EXTRA_FILES matches in the
\* project directory, the completion scripts in the order of COMPLETE_SHELLS
SourceFiles(f) ==
    <<BIN, Chars("LICENSE"), Chars("README.md")>>
        \o [i \in 1..Len(SelectSeq(COMPLETE_SHELLS, LAMBDA s : <<"release", s>> \in f.complete)) |->
               PathJoin(Chars("complete"),
                        CompletionFile(SelectSeq(COMPLETE_SHELLS,
                                                 LAMBDA s : <<"release", s>> \in f.complete)[i]))]

\* The flags Bundler.build(**flags0) passes to fpm, given the revision
BuildFlags(flags0, pkg, target, arch, sha) ==
    LET f1 == OdPut(OdPut(flags0, "s", Chars("dir")), "C", SOURCE_DIR)
        f2 == OdPut(f1, "t", Chars(target))
        f3 == OdSetDefault(f2, "package",
                  PathJoin(OUTPUT_DIR, bundle_name(pkg, arch) \o Chars(".") \o Chars(target)))
        f4 == SetPackageDefaults(f3, pkg, 1)
        f5 == OdSetDefault(f4, "vendor", Chars("<unspecified>"))
        Iteration(f6) == IF OdHas(f6, "iteration") THEN f6 ELSE OdPut(f6, "iteration", sha)
    IN  Iteration(OdSetDefault(f5, "architecture", arch))

\* Bundler(ctx, target).build(**flags0), for the bundler of architecture
\* arch; fpm writes its output e.fpmOut to the file named by --package
Bundler_build(w, e, target, arch, flags0) ==
    IF ~Running(w) THEN w
    ELSE IF \E i \in 1..Len(PackageFields) : ManifestKey(PackageFields[i]) \notin DOMAIN w.fs.cargo
    THEN Raise(w, 1, "KeyError")
    ELSE LET fpm_flags(flags) ==
                 Join(Chars(" "),
                      [i \in 1..Len(flags) |-> format_flag(flags[i][1], flags[i][2])])
             fpm_args(files) ==
                 Join(Chars(" "), [i \in 1..Len(files) |-> quote(files[i])])
             fpm_cmdline(flags) ==
                 Chars("fpm --force --log error ") \o fpm_flags(flags)
                     \o Chars(" ") \o fpm_args(SourceFiles(w.fs))
             Written(w2, flags) ==
                 IF e.fpmRc # 0 THEN Raise(w2, e.fpmRc, "UnexpectedExit")
                 ELSE WriteFile(w2, OdGet(flags, "package"), e.fpmOut)
             Fpm(w1, flags) ==
                 IF ~Running(w1) THEN w1
                 ELSE Written([w1 EXCEPT !.trace =
                                  Append(@, Event("run", fpm_cmdline(flags),
                                                  e.osEnv, flags))],
                              flags)
         IN  Fpm(IF OdHas(flags0, "iteration") THEN w
                 ELSE ctx_run(w, e, Chars("git rev-parse --short HEAD"),
                              EmptyDict, FALSE, e.gitRc),
                 BuildFlags(flags0, w.fs.cargo, target, arch, Strip(e.shaOut)))

\* The shared start of the bundle tasks
Stage(w, e) ==
    IF ~Running(w) THEN w
    ELSE LET Checked(w1) ==
                 IF ~Running(w1) THEN w1
                 ELSE prepare_release(ensure_output_dir(w1, e), e)
         IN  Checked(ensure_fpm(w, e))

\* tar(ctx)
tar(w, e) ==
    IF ~Running(w) THEN w
    ELSE
        LET Build(b) == Bundler_build(b.w, e, "tar", b.arch, <<>>)
            Staged(w0) == IF ~Running(w0) THEN w0 ELSE Build(Bundler(w0, e))
        IN  Staged(Stage(w, e))

\* gzip.open(path, 'wb').write(data): a header with the time of writing,
\* the data, and a trailer with the length of the data
gzip(data, mtime) == <<31, 139, 8, mtime>> \o data \o <<Len(data) % 256>>

\* time.time(): the run starts at e.now and every step takes its time
Clock(w, e) == e.now + Len(w.trace)

\* tempfile.mktemp('.tar', BIN + '-')
mktemp(e) == Chars("/tmp/") \o BIN \o Chars("-") \o e.tmpName \o Chars(".tar")

\* tar_gz(ctx): returns the path of the compressed tarball
tar_gz(w, e) ==
    IF ~Running(w) THEN w
    ELSE
        LET Compress(w1, tar_gz_path) ==
                [Log(WriteFile(w1, tar_gz_path,
                               gzip(w1.fs.tmp[mktemp(e)], Clock(w1, e))),
                     "gzip") EXCEPT !.ret = tar_gz_path]
            Built(w1, arch) ==
                IF ~Running(w1) THEN w1
                ELSE Compress(w1, PathJoin(OUTPUT_DIR,
                                           bundle_name(w1.fs.cargo, arch)
                                               \o Chars(".tar.gz")))
            Build(b) ==
                Built(Bundler_build(b.w, e, "tar", b.arch, <<<<"package", mktemp(e)>>>>),
                      b.arch)
            Staged(w0) == IF ~Running(w0) THEN w0 ELSE Build(Bundler(w0, e))
        IN  Staged(Stage(w, e))

\* deb with the output directory made before fpm is looked for
deb_dir_first(w, e) ==
    IF ~Running(w) THEN w
    ELSE
        LET Build(b) ==
                Bundler_build(b.w, e, "deb", b.arch, <<<<"prefix", LINUX_INSTALL_DIR>>>>)
            Staged(w0) == IF ~Running(w0) THEN w0 ELSE Build(Bundler(w0, e))
        IN  Staged(prepare_release(ensure_fpm(ensure_output_dir(w, e), e), e))

\* deb(ctx)
deb(w, e) ==
    IF ~Running(w) THEN w
    ELSE
        LET Build(b) ==
                Bundler_build(b.w, e, "deb", b.arch, <<<<"prefix", LINUX_INSTALL_DIR>>>>)
            Staged(w0) == IF ~Running(w0) THEN w0 ELSE Build(Bundler(w0, e))
        IN  Staged(Stage(w, e))

\* rpm(ctx): returns False when rpm is not installed
rpm(w, e) ==
    IF ~Running(w) THEN w
    ELSE
        LET Build(b) ==
                Bundler_build(b.w, e, "rpm", b.arch, <<<<"prefix", LINUX_INSTALL_DIR>>>>)
            Staged(w0) == IF ~Running(w0) THEN w0 ELSE Build(Bundler(w0, e))
            Checked(w1) ==
                IF Running(w1) /\ ~Found(e, "rpm") THEN w1
                ELSE Staged(prepare_release(ensure_output_dir(w1, e), e))
        IN  Checked(which(ensure_fpm(w, e), e, "rpm"))


-----------------------------------------------------------------------------
(* src/tasks/release/homebrew.py *)

FORMULA_TEMPLATE ==
    Chars("class $name < Formula\n  version '$version'\n  desc \"$description\"\n  homepage \"$homepage\"\n  url \"$url\"\n  sha256 \"$sha\"\n\n  def install\n    bin.install \"$bin\"\n    # TODO: generate man pages\n    # man1.install \"$bin.1\"\n  end\nend")

URL_TEMPLATE ==
    Chars("$repository/releases/download/#{version}/$name-#{version}-x86_64-apple-darwin.tar.gz")

\* The characters of a placeholder's name
IsIdStart(c) == c = "_" \/ c \in {UpperCase[i] : i \in 1..Len(UpperCase)}
                        \/ c \in {LowerCase[i] : i \in 1..Len(LowerCase)}

RECURSIVE IdEnd(_, _)
\* The index of the last character of the identifier that goes on at i
IdEnd(t, i) ==
    IF i < Len(t) /\ (IsIdStart(t[i + 1]) \/ IsDigit(t[i + 1])) THEN IdEnd(t, i + 1) ELSE i

RECURSIVE RenderFrom(_, _, _, _)
\* string.Template(t).substitute(subst) from index i on: $$ is a dollar
\* sign, $identifier is replaced by subst[identifier]; a missing key is a
\* KeyError and any other use of $ a ValueError (${identifier} is not used
\* by the templates)
RenderFrom(t, i, subst, acc) ==
    LET d == IndexFrom(t, "$", i)
    IN  IF i > Len(t) \/ d = 0 THEN [ok |-> TRUE, out |-> acc \o SubSeq(t, i, Len(t))]
        ELSE IF d < Len(t) /\ t[d + 1] = "$"
        THEN RenderFrom(t, d + 2, subst, acc \o SubSeq(t, i, d))
        ELSE IF d = Len(t) \/ ~IsIdStart(t[d + 1]) THEN [ok |-> FALSE, out |-> acc]
        ELSE LET j == IdEnd(t, d + 1)
                 keys == {k \in DOMAIN subst : Chars(k) = SubSeq(t, d + 1, j)}
             IN  IF keys = {} THEN [ok |-> FALSE, out |-> acc]
                 ELSE RenderFrom(t, j + 1, subst,
                                 acc \o SubSeq(t, i, d - 1)
                                     \o subst[CHOOSE k \in keys : TRUE])

\* render(template, **subst)
render(template, subst) == RenderFrom(template, 1, subst, <<>>)

\* hasher.update(buf) for each byte of buf, on a 16 bit state: the model's
\* stand-in for the compression function of SHA-256
RECURSIVE HashUpdate(_, _, _)
HashUpdate(h, buf, i) ==
    IF i > Len(buf) THEN h
    ELSE HashUpdate((h * 31 + buf[i] + 1) % 65521, buf, i + 1)

\* hasher.hexdigest() of the state h
HexDigest(h) ==
    LET HexDigits == Chars("0123456789abcdef")
    IN  <<HexDigits[((h \div 4096) % 16) + 1], HexDigits[((h \div 256) % 16) + 1],
          HexDigits[((h \div 16) % 16) + 1], HexDigits[(h % 16) + 1]>>

RECURSIVE ReadLoop(_, _, _, _)
\* the loop of hex_digest: f.read(buf_size) from position pos until an
\* empty read
ReadLoop(content, pos, buf_size, h) ==
    LET last == IF pos + buf_size - 1 < Len(content) THEN pos + buf_size - 1
                ELSE Len(content)
        buf == SubSeq(content, pos, last)
    IN  IF buf = <<>> THEN h
        ELSE ReadLoop(content, pos + Len(buf), buf_size, HashUpdate(h, buf, 1))

\* hex_digest with a single f.read(buf_size)
hex_digest_single_read(content, buf_size) ==
    HexDigest(HashUpdate(7,
                         SubSeq(content, 1,
                                IF buf_size < Len(content) THEN buf_size
                                ELSE Len(content)),
                         1))

\* hex_digest(filename, 'sha256', buf_size), for the content of the file
hex_digest(content, buf_size) == HexDigest(ReadLoop(content, 1, buf_size, 7))

\* The rest of brew(ctx) after tar_gz: digest the file named by bundle,
\* render the URL and the formula, write the formula
WriteFormula(w, e, variables, bundle) ==
    IF ~Running(w) THEN w
    ELSE LET Written(w2, v2, formula) ==
                 IF ~formula.ok THEN Raise(w2, 1, "KeyError")
                 ELSE Log(WriteFile(Log(w2, "render formula"),
                                    PathJoin(OUTPUT_DIR, v2["name"] \o Chars(".rb")),
                                    formula.out),
                          "write formula")
             Formula(w2, v2) == Written(w2, v2, render(FORMULA_TEMPLATE, v2))
             Url(w1, v1, url) ==
                 IF ~url.ok THEN Raise(w1, 1, "KeyError")
                 ELSE Formula(Log(w1, "render url"),
                              DictUpdate(v1, [k \in {"url"} |-> url.out]))
             Digest(w1, v1) == Url(w1, v1, render(URL_TEMPLATE, v1))
         IN  Digest(Log(w, "sha256"),
                    DictUpdate(variables,
                               [k \in {"sha"} |-> hex_digest(bundle, 65536)]))

\* brew with the digest taken of the uncompressed tarball
brew_digest_of_tar(w, e) ==
    IF ~Running(w) THEN w
    ELSE IF "name" \notin DOMAIN w.fs.cargo THEN Raise(w, 1, "KeyError")
    ELSE LET variables ==
                 DictUpdate(w.fs.cargo,
                            [k \in {"name", "bin"} |->
                                IF k = "name" THEN Capitalize(w.fs.cargo["name"]) ELSE BIN])
             Formula(w1) ==
                 IF ~Running(w1) THEN w1
                 ELSE WriteFormula(w1, e, variables, w1.fs.tmp[mktemp(e)])
         IN  Formula(tar_gz(w, e))

\* brew(ctx)
brew(w, e) ==
    IF ~Running(w) THEN w
    ELSE IF "name" \notin DOMAIN w.fs.cargo THEN Raise(w, 1, "KeyError")
    ELSE LET variables ==
                 DictUpdate(w.fs.cargo,
                            [k \in {"name", "bin"} |->
                                IF k = "name" THEN Capitalize(w.fs.cargo["name"]) ELSE BIN])
             Formula(w1) ==
                 IF ~Running(w1) THEN w1
                 ELSE WriteFormula(w1, e, variables, w1.fs.files[w1.ret])
         IN  Formula(tar_gz(w, e))

-----------------------------------------------------------------------------
(* src/tasks/release/__init__.py *)

\* The platform all_ dispatches on
Platform(e, platform) ==
    LET Alias(p) ==
            IF p \in {Chars("osx"), Chars("mac"), Chars("macosx")} THEN Chars("darwin")
            ELSE p
        Given(p) == Alias(IF p # <<>> THEN p ELSE e.sysPlatform)
    IN  Given(Strip(Lower(platform)))

\* is_platform(p)
is_platform(platform, p) == platform = Chars("all") \/ StartsWith(platform, Chars(p))

\* The call of a bundle task from all_
Call(w, task) == IF Running(w) THEN Log(w, "call " \o task) ELSE w

\* all_ with the fallback bundle made only when no platform matched
all_without_generic(w, e, platform) ==
    IF ~Running(w) THEN w
    ELSE
        LET built_any(p) == is_platform(p, "linux") \/ is_platform(p, "darwin")
            Fallback(p, w2) ==
                IF ~built_any(p) THEN tar_gz(Call(w2, "tar_gz"), e) ELSE w2
            OnDarwin(p, w1) ==
                Fallback(p, IF is_platform(p, "darwin") THEN brew(Call(w1, "brew"), e)
                            ELSE w1)
            OnLinux(p) ==
                OnDarwin(p, IF is_platform(p, "linux")
                            THEN rpm(Call(deb(Call(w, "deb"), e), "rpm"), e)
                            ELSE w)
        IN  OnLinux(Platform(e, platform))

\* all_(ctx, platform)
all_(w, e, platform) ==
    IF ~Running(w) THEN w
    ELSE
        LET built_any(p) == is_platform(p, "linux") \/ is_platform(p, "darwin")
            Fallback(p, w2) ==
                IF ~built_any(p) \/ p = Chars("all") THEN tar_gz(Call(w2, "tar_gz"), e) ELSE w2
            OnDarwin(p, w1) ==
                Fallback(p, IF is_platform(p, "darwin") THEN brew(Call(w1, "brew"), e)
                            ELSE w1)
            OnLinux(p) ==
                OnDarwin(p, IF is_platform(p, "linux")
                            THEN rpm(Call(deb(Call(w, "deb"), e), "rpm"), e)
                            ELSE w)
        IN  OnLinux(Platform(e, platform))

\* clean that makes the directory again whether or not rmtree failed
release_clean_always_mkdir(w, e) ==
    IF ~Running(w) \/ w.fs.release # "dir" THEN w
    ELSE LET w1 == Log(w, "rmtree release")
         IN  CASE e.rmtreeErr = "none" ->
                    Log([w1 EXCEPT !.fs.files = EmptyDict], "mkdir release")
               [] e.rmtreeErr = "first" ->
                    Raise(Log(w1, "warning"), 1, "FileExistsError")
               [] OTHER ->
                    Raise(Log([w1 EXCEPT !.fs.files = EmptyDict], "warning"),
                          1, "FileExistsError")

\* clean(ctx) of the release collection. shutil.rmtree removes the entries
\* of the directory and then the directory; it raises at the first entry it
\* cannot remove (rmtreeErr "first": nothing is removed yet) or when the
\* directory itself cannot be removed (rmtreeErr "last": it is left empty).
\* After a removal that succeeded mkdir creates the directory in the parent
\* the directory has just been removed from.
release_clean(w, e) ==
    IF ~Running(w) \/ w.fs.release # "dir" THEN w
    ELSE LET w1 == Log(w, "rmtree release")
         IN  CASE e.rmtreeErr = "none" ->
                    Log([w1 EXCEPT !.fs.files = EmptyDict], "mkdir release")
               [] e.rmtreeErr = "first" -> Log(w1, "warning")
               [] OTHER -> Log([w1 EXCEPT !.fs.files = EmptyDict], "warning")

-----------------------------------------------------------------------------
(* src/tasks/release.py: the release tasks before the release package *)

PACKAGE_INFO ==
    <<<<"name", Chars("gisht")>>, <<"version", Chars("1.0")>>,
      <<"description", Chars("Gists in the shell")>>,
      <<"url", Chars("http://github.com/Xion/gisht")>>,
      <<"license", Chars("GPL v3")>>, <<"maintainer", Chars("Karol Kuczmarski")>> >>

\* ensure_fpm(ctx): sys.exit(1) when fpm is not found
ensure_fpm_release_py(w, e) ==
    IF ~Running(w) THEN w
    ELSE
        LET Check(w1) ==
                IF Running(w1) /\ ~Found(e, "fpm") THEN Raise(w1, 1, "SystemExit") ELSE w1
        IN  Check(which(w, e, "fpm"))

\* ensure_output_dir()
ensure_output_dir_release_py(w, e) ==
    IF ~Running(w) THEN w
    ELSE LET w1 == Log(w, "stat release")
         IN  CASE w.fs.release = "dir" -> w1
               [] w.fs.release = "file" -> Raise(w1, 2, "SystemExit")
               [] OTHER ->
                    IF e.mkdirOk
                    THEN Log([w1 EXCEPT !.fs.release = "dir"], "mkdir release")
                    ELSE Raise(w1, 2, "SystemExit")

\* prepare_release(ctx)
prepare_release_release_py(w, e) ==
    IF ~Running(w) THEN w
    ELSE
        LET w1 == cargo(w, e, <<Chars("build"), Chars("--release")>>, TRUE, EmptyDict,
                        FALSE, e.cargoRc)
            w2 == which(w1, e, "strip")
            w3 == IF Found(e, "strip")
                  THEN ctx_run(w2, e, Chars("strip ") \o PathJoin(SOURCE_DIR, BIN),
                               EmptyDict, FALSE, e.stripRc)
                  ELSE w2
        IN  IF ~Running(w3) THEN w3
            ELSE Log([w3 EXCEPT !.fs.staged = @ \cup {Chars("LICENSE")}],
                     "copy extra files")

RECURSIVE SetDefaults(_, _, _)
\* for key, value in PACKAGE_INFO.iteritems(): flags.setdefault(key, value)
SetDefaults(flags, info, i) ==
    IF i > Len(info) THEN flags
    ELSE SetDefaults(OdSetDefault(flags, info[i][1], info[i][2]), info, i + 1)

\* bundle(ctx, target, **flags0)
bundle(w, e, target, flags0) ==
    IF ~Running(w) THEN w
    ELSE LET f1 == OdPut(OdPut(flags0, "s", Chars("dir")), "C", SOURCE_DIR)
             f2 == OdPut(OdPut(f1, "t", Chars(target)), "package",
                         PathJoin(OUTPUT_DIR, OdGet(PACKAGE_INFO, "name")
                                                  \o Chars(".") \o Chars(target)))
             f3 == OdSetDefault(SetDefaults(f2, PACKAGE_INFO, 1), "vendor",
                                Chars("<unspecified>"))
             w1 == IF OdHas(f3, "iteration") THEN w
                   ELSE ctx_run(w, e, Chars("git rev-parse --short HEAD"),
                                EmptyDict, FALSE, e.gitRc)
             flags == IF OdHas(f3, "iteration") THEN f3
                      ELSE OdPut(f3, "iteration", Strip(e.shaOut))
             fpm_args == Join(Chars(" "),
                              [i \in 1..Len(flags) |-> format_flag(flags[i][1], flags[i][2])])
             fpm_cmdline == Chars("fpm --force --log error ") \o fpm_args
                                \o Chars(" ") \o BIN
         IN  IF ~Running(w1) THEN w1
             ELSE LET w2 == [w1 EXCEPT !.trace =
                                Append(@, Event("run", fpm_cmdline, e.osEnv, flags))]
                  IN  IF e.fpmRc # 0 THEN Raise(w2, e.fpmRc, "UnexpectedExit")
                      ELSE WriteFile(w2, OdGet(flags, "package"), e.fpmOut)

\* deb(ctx)
deb_release_py(w, e) ==
    IF ~Running(w) THEN w
    ELSE
        bundle(prepare_release_release_py(
                   ensure_output_dir_release_py(ensure_fpm_release_py(w, e), e), e),
               e, "deb", <<<<"prefix", LINUX_INSTALL_DIR>>>>)

\* rpm(ctx): returns 1 when rpm is not installed
rpm_release_py(w, e) ==
    IF ~Running(w) THEN w
    ELSE
        LET w1 == which(ensure_fpm_release_py(w, e), e, "rpm")
        IN  IF Running(w1) /\ ~Found(e, "rpm") THEN w1
            ELSE bundle(prepare_release_release_py(ensure_output_dir_release_py(w1, e), e),
                        e, "rpm", <<<<"prefix", LINUX_INSTALL_DIR>>>>)


-----------------------------------------------------------------------------
(* The runs of the release tasks *)

\* Environments in which a program is not installed
MissingTool(prog) == [DefaultEnv EXCEPT !.whichRc[prog] = 1]

\* Environments that differ in what the programs report
VarEnvs ==
    {[DefaultEnv EXCEPT !.osEnv = DictUpdate(@, [k \in {"ARCH"} |-> Chars("amd64")])],
     [DefaultEnv EXCEPT !.shaOut = Chars("9d0e1f2\n")],
     [DefaultEnv EXCEPT !.fpmOut = <<116, 97, 114, 50>>],
     [DefaultEnv EXCEPT !.now = 8],
     [DefaultEnv EXCEPT !.unameS = [rc |-> 0, out |-> Chars("Darwin\n")],
                        !.sysPlatform = Chars("darwin")],
     [DefaultEnv EXCEPT !.tmpName = Chars("q7")]}

\* The default environment, those and the environments in which one step fails
ReleaseEnvs ==
    {DefaultEnv} \cup VarEnvs \cup
    {MissingTool(p) : p \in {"fpm", "rpm", "strip", "uname"}} \cup
    {[DefaultEnv EXCEPT !.stripRc = 1],
     [DefaultEnv EXCEPT !.fpmRc = 1],
     [DefaultEnv EXCEPT !.mkdirOk = FALSE],
     [DefaultEnv EXCEPT !.cargoRc = 101],
     [DefaultEnv EXCEPT !.rustcOut = Chars("rustc 1.12.0 (3191fbae9)\n")],
     [DefaultEnv EXCEPT !.gitRc = 128, !.gitOut = <<>>, !.shaOut = <<>>],
     [DefaultEnv EXCEPT !.unameS = [rc |-> 1, out |-> <<>>]],
     [DefaultEnv EXCEPT !.unameM = [rc |-> 1, out |-> <<>>]],
     [DefaultEnv EXCEPT !.binRc = 1]}

FewEnvs ==
    {DefaultEnv, MissingTool("fpm"), MissingTool("rpm"),
     [DefaultEnv EXCEPT !.fpmRc = 1], [DefaultEnv EXCEPT !.mkdirOk = FALSE]}

\* The runs of `release all`: the environment and the value of the
\* --platform argument; <<>> is no argument
AllRuns ==
    ({DefaultEnv} \X
        {<<>>, Chars("all"), Chars(" ALL "), Chars("linux"), Chars("Linux2"),
         Chars("darwin"), Chars("OSX"), Chars("mac"), Chars("macosx"),
         Chars("win32"), Chars("macos")})
        \cup ((FewEnvs \ {DefaultEnv}) \X {Chars("all"), Chars("linux"), Chars("darwin")})
        \cup ({[DefaultEnv EXCEPT !.sysPlatform = p] :
                  p \in {Chars("darwin"), Chars("win32"), Chars("linux2")}} \X {<<>>})

\* The project directories the release tasks start in; UsedFs is a release
\* directory an earlier run has left, with the bundle and the formula of
\* that run
ReleaseFs ==
    LET UsedFs ==
            [InitFs EXCEPT
                !.release = "dir",
                !.files = [p \in {Chars("release/gisht-0.1-x86_64-linux.tar.gz"),
                                  Chars("release/Gisht.rb")} |->
                              IF p = Chars("release/Gisht.rb") THEN Chars("class Gisht")
                              ELSE gzip(<<116, 97>>, 3)],
                !.tmp = [p \in {Chars("/tmp/gisht-x3k9.tar")} |-> <<116, 97>>],
                !.completeDir = {"release"},
                !.complete = {<<"release", COMPLETE_SHELLS[i]>> :
                                 i \in 1..Len(COMPLETE_SHELLS)},
                !.staged = {Chars("LICENSE")}]
        \* Cargo.toml without the key k
        ManifestWithout(k) == [j \in DOMAIN GoodManifest \ {k} |-> GoodManifest[j]]
    IN
    {InitFs, UsedFs,
     [InitFs EXCEPT !.release = "file"],
     [InitFs EXCEPT !.release = "dir"],
     [InitFs EXCEPT !.cargo = DictUpdate(@, [k \in {"name", "version"} |->
                                 IF k = "name" THEN Chars("GistSH") ELSE Chars("1.0")])],
     [InitFs EXCEPT !.cargo = ManifestWithout("homepage")],
     [InitFs EXCEPT !.cargo = ManifestWithout("repository")]}

TaskReleaseAll(max) ==
    \E r \in AllRuns :
        Invoke(max, "release.all", [DefaultArgs EXCEPT !.platform = r[2]], r[1],
               all_(World(fs), r[1], r[2]))

TaskTar(max) ==
    \E e \in FewEnvs : Invoke(max, "tar", DefaultArgs, e, tar(World(fs), e))

TaskTarGz(max) ==
    \E e \in ReleaseEnvs : Invoke(max, "tar_gz", DefaultArgs, e, tar_gz(World(fs), e))

TaskDeb(max) ==
    \E e \in ReleaseEnvs : Invoke(max, "deb", DefaultArgs, e, deb(World(fs), e))

TaskRpm(max) ==
    \E e \in FewEnvs : Invoke(max, "rpm", DefaultArgs, e, rpm(World(fs), e))

TaskBrew(max) ==
    \E e \in {DefaultEnv, MissingTool("fpm"), [DefaultEnv EXCEPT !.fpmRc = 1]} \cup VarEnvs :
        Invoke(max, "brew", DefaultArgs, e, brew(World(fs), e))

TaskReleaseClean(max) ==
    \E e \in {[DefaultEnv EXCEPT !.rmtreeErr = r] : r \in {"none", "first", "last"}} :
        Invoke(max, "release.clean", DefaultArgs, e, release_clean(World(fs), e))

TaskDebReleasePy(max) ==
    \E e \in FewEnvs :
        Invoke(max, "deb_release_py", DefaultArgs, e, deb_release_py(World(fs), e))

TaskRpmReleasePy(max) ==
    \E e \in FewEnvs :
        Invoke(max, "rpm_release_py", DefaultArgs, e, rpm_release_py(World(fs), e))

InitRelease == \E f \in ReleaseFs : Start(f)

NextRelease ==
    \/ TaskReleaseAll(MaxReleaseRuns)
    \/ TaskTar(MaxReleaseRuns)
    \/ TaskTarGz(MaxReleaseRuns)
    \/ TaskDeb(MaxReleaseRuns)
    \/ TaskRpm(MaxReleaseRuns)
    \/ TaskBrew(MaxReleaseRuns)
    \/ TaskReleaseClean(MaxReleaseRuns)
    \/ TaskDebReleasePy(MaxReleaseRuns)
    \/ TaskRpmReleasePy(MaxReleaseRuns)

SpecRelease == InitRelease /\ [][NextRelease]_vars

-----------------------------------------------------------------------------
(* Calls of hex_digest *)

\* The files hex_digest is called on: up to MaxFileLen bytes
FileContents == SeqsUpTo({0, 10, 255}, MaxFileLen)

\* A call of hex_digest() itself on a file of the release directory, with any
\* buf_size; the value returned is the one entry of the trace
CallHexDigest(max) ==
    \E path \in DOMAIN fs.files, n \in 1..MaxBufSize :
        Invoke(max, "hex_digest",
               [DefaultArgs EXCEPT !.argv = <<path>>, !.buf_size = n], DefaultEnv,
               [World(fs) EXCEPT !.trace =
                   <<Event("return", hex_digest(fs.files[path], n), EmptyDict, <<>>)>>])

InitDigest ==
    \E c \in FileContents :
        Start([InitFs EXCEPT
                  !.release = "dir",
                  !.files = [p \in {Chars("release/gisht-0.1-x86_64-linux.tar.gz")} |-> c]])

NextDigest == CallHexDigest(MaxDigestRuns)

SpecDigest == InitDigest /\ [][NextDigest]_vars


-----------------------------------------------------------------------------
(* Properties of the release tasks (SpecRelease) *)

IsStep(ev, name) == ev.kind = "step" /\ ev.cmd = Chars(name)

IsCommand(ev, prefix) == ev.kind = "run" /\ StartsWith(ev.cmd, Chars(prefix))

\* The positions of the trace at which a step or a command is
StepsAt(name) == {i \in 1..Len(trace) : IsStep(trace[i], name)}

CommandsAt(prefix) == {i \in 1..Len(trace) : IsCommand(trace[i], prefix)}

\* Every position of A is before every position of B
Before(A, B) == \A a \in A, b \in B : a < b

Succeeded == exit.err = "none"

----
\* release all

\* The platform `release all` was given, as the claim normalises it
GivenPlatform ==
    LET given == Strip(Lower(inv.args.platform))
        p == IF given = <<>> THEN inv.e.sysPlatform ELSE given
    IN  IF p \in {Chars("osx"), Chars("mac"), Chars("macosx")} THEN Chars("darwin") ELSE p

ForLinux == GivenPlatform = Chars("all") \/ StartsWith(GivenPlatform, Chars("linux"))

ForDarwin == GivenPlatform = Chars("all") \/ StartsWith(GivenPlatform, Chars("darwin"))

Generic == GivenPlatform = Chars("all") \/ ~(ForLinux \/ ForDarwin)

\* The bundle tasks the platform selects, in the order deb, rpm, brew, tar_gz
Selected ==
    (IF ForLinux THEN <<Chars("call deb"), Chars("call rpm")>> ELSE <<>>)
        \o (IF ForDarwin THEN <<Chars("call brew")>> ELSE <<>>)
        \o (IF Generic THEN <<Chars("call tar_gz")>> ELSE <<>>)

\* The bundle tasks all_ has called, in the order of the calls
Called ==
    LET calls == SelectSeq(trace, LAMBDA ev :
                     ev.kind = "step" /\ StartsWith(ev.cmd, Chars("call ")))
    IN  AsSeq([i \in 1..Len(calls) |-> calls[i].cmd])

WasCalled(task) == \E i \in 1..Len(Called) : Called[i] = Chars("call " \o task)

\* C2 as stated: `release all` runs deb and rpm iff the platform is 'all' or
\* starts with 'linux', brew iff it is 'all' or starts with 'darwin', and
\* tar_gz directly iff it is 'all' or neither branch ran.
C2_SelectedTasksAllRun ==
    inv.task = "release.all" =>
        /\ WasCalled("deb") <=> ForLinux
        /\ WasCalled("rpm") <=> ForLinux
        /\ WasCalled("brew") <=> ForDarwin
        /\ WasCalled("tar_gz") <=> Generic

\* C2, amended: the platform selects deb and rpm iff it is 'all' or starts
\* with 'linux', brew iff it is 'all' or starts with 'darwin', tar_gz iff it
\* is 'all' or neither branch is selected; at least one task is selected.
\* The tasks `release all` runs are a non-empty prefix of the selected ones
\* in the order deb, rpm, brew, tar_gz: a task that raises (fpm missing, a
\* failed build or fpm run) ends the run before the later ones. A run that
\* ends normally has run all the selected tasks.
C2_SelectedTasksRunInOrder ==
    inv.task = "release.all" =>
        /\ Selected # <<>>
        /\ Called # <<>>
        /\ Len(Called) <= Len(Selected)
        /\ Called = SubSeq(Selected, 1, Len(Called))
        /\ Succeeded => Called = Selected
        /\ Called # Selected => ExitCode # 0

C2_Witness ==
    /\ inv.task = "release.all"
    /\ GivenPlatform = Chars("all")
    /\ Succeeded
    /\ Called = <<Chars("call deb"), Chars("call rpm"), Chars("call brew"),
                  Chars("call tar_gz")>>

----
\* Bundle names

FpmRuns == CommandsAt("fpm ")

\* The architecture string of the run's Bundler, as given to fpm
RunArch ==
    OdGet(trace[CHOOSE i \in FpmRuns : TRUE].flags, "architecture")

\* release/<name>-<version>-<arch>.<target>
ExpectedPath(name, version, arch, target) ==
    Chars("release/") \o name \o Chars("-") \o version \o Chars("-") \o arch
        \o Chars(".") \o Chars(target)

\* The path the claim gives the bundle of a target in this run
ExpectedBundle(target) ==
    ExpectedPath(fs.cargo["name"], fs.cargo["version"], RunArch, target)

\* The files of the release directory that are new or have new content
OutputsWritten ==
    {p \in DOMAIN fs.files : p \notin DOMAIN before.files \/ fs.files[p] # before.files[p]}

FormulaPath == Chars("release/") \o Capitalize(fs.cargo["name"]) \o Chars(".rb")

\* The bundles a task of the release package makes
TargetsOf(task) ==
    CASE task = "tar" -> {"tar"}
      [] task = "deb" -> {"deb"}
      [] task = "rpm" -> {"rpm"}
      [] task \in {"tar_gz", "brew"} -> {"tar.gz"}
      [] task = "release.all" -> {"deb", "rpm", "tar.gz"}
      [] OTHER -> {}

\* C5: the deb, rpm and tar tasks tell fpm to write
\* release/<name>-<version>-<arch>.<target>, tar_gz writes
\* release/<name>-<version>-<arch>.tar.gz, with name and version from
\* Cargo.toml and arch the Bundler's architecture string; no other bundle is
\* written, whatever the revision, the other flags and the files earlier
\* tasks have left.
C5_BundlePathIsNameVersionArch ==
    TargetsOf(inv.task) # {} =>
        /\ \A i \in FpmRuns :
              LET flags == trace[i].flags
              IN  \/ OdGet(flags, "t") = Chars("tar") /\ inv.task # "tar"
                  \/ OdGet(flags, "package") =
                        PathJoin(OUTPUT_DIR,
                                 fs.cargo["name"] \o Chars("-") \o fs.cargo["version"]
                                    \o Chars("-") \o OdGet(flags, "architecture")
                                    \o Chars(".") \o OdGet(flags, "t"))
        /\ FpmRuns = {} => OutputsWritten = {}
        /\ FpmRuns # {} =>
              OutputsWritten \ {FormulaPath} \subseteq
                  {ExpectedBundle(t) : t \in TargetsOf(inv.task)}
        /\ (Succeeded /\ inv.task \in {"tar", "deb", "tar_gz", "brew"}) =>
              \A t \in TargetsOf(inv.task) : ExpectedBundle(t) \in DOMAIN fs.files

C5_Witness ==
    /\ inv.task = "deb"
    /\ Succeeded
    /\ inv.e.shaOut # DefaultEnv.shaOut
    /\ Chars("release/gisht-0.1-x86_64-linux.deb") \in OutputsWritten

----
\* brew

\* The positions of the last gzip step and of the formula's writing
BundleWritten == StepsAt("gzip")

FormulaWritten == StepsAt("write formula")

\* C4: brew makes the .tar.gz bundle, digests it, renders the URL and the
\* formula and writes the formula file, in this order; the formula is
\* written only after the bundle exists, and (no bundle being written after
\* it) its sha256 is the digest of the bundle this run has written.
C4_FormulaHasDigestOfThisRunsBundle ==
    \A i \in FormulaWritten :
        /\ \E g \in BundleWritten, d \in StepsAt("sha256"), u \in StepsAt("render url"),
              r \in StepsAt("render formula") :
                g < d /\ d < u /\ u < r /\ r < i
        /\ Before(BundleWritten, {i}) =>
              /\ ExpectedBundle("tar.gz") \in DOMAIN fs.files
              /\ fs.files[ExpectedBundle("tar.gz")] =
                    gzip(inv.e.fpmOut,
                         inv.e.now + (CHOOSE g \in BundleWritten : TRUE) - 1)
              /\ FormulaPath \in DOMAIN fs.files
              /\ Contains(fs.files[FormulaPath],
                          Chars("sha256 \"")
                              \o hex_digest(fs.files[ExpectedBundle("tar.gz")], 65536)
                              \o Chars("\""))


C4_Witness ==
    /\ inv.task = "brew"
    /\ Succeeded
    /\ FormulaWritten # {}
    /\ ExpectedBundle("tar.gz") \in DOMAIN before.files
    /\ fs.files[ExpectedBundle("tar.gz")] # before.files[ExpectedBundle("tar.gz")]
    /\ hex_digest(fs.files[ExpectedBundle("tar.gz")], 65536)
          # hex_digest(before.files[ExpectedBundle("tar.gz")], 65536)

----
\* The bundle tasks

BundleTasks == {"tar", "tar_gz", "deb", "rpm", "deb_release_py", "rpm_release_py"}

FpmMissing == inv.e.whichRc["fpm"] # 0

\* The steps that make sure of the output directory
DirSteps == StepsAt("stat release") \cup StepsAt("mkdir release")

\* C7: a bundle task looks for fpm before anything else; when `which fpm`
\* fails it ends with exit code 1 and has done nothing else: no directory
\* is made, nothing is built, fpm is not run. When fpm is run, the output
\* directory has been made sure of before the release build, the build is
\* before strip, strip before the copying of the extra files, and all of
\* these before fpm.
C7_FpmCheckedFirstThenDirBuildFpm ==
    inv.task \in BundleTasks =>
        /\ trace # <<>> /\ IsCommand(trace[1], "which fpm")
        /\ FpmMissing =>
              /\ ExitCode = 1
              /\ Len(trace) = 1
              /\ fs = before
        /\ Before(DirSteps, CommandsAt("cargo "))
        /\ Before(CommandsAt("cargo "), CommandsAt("which strip") \cup CommandsAt("strip "))
        /\ Before(CommandsAt("which strip") \cup CommandsAt("strip "),
                  StepsAt("copy extra files"))
        /\ Before(StepsAt("copy extra files"), FpmRuns)
        /\ FpmRuns # {} =>
              /\ StepsAt("stat release") # {}
              /\ CommandsAt("cargo build --release") # {}
              /\ StepsAt("copy extra files") # {}

C7_Witness ==
    /\ inv.task = "tar_gz"
    /\ FpmMissing
    /\ before.release = "absent"
    /\ fs.release = "absent"
    /\ ExitCode = 1

----
\* release clean

\* C9: `release clean` of a directory whose removal succeeds leaves an empty
\* directory; when the removal raises, a warning is logged, the directory is
\* not made again and the task ends normally; when the release path is not a
\* directory nothing is done.
C9_CleanLeavesEmptyDirOrWarns ==
    inv.task = "release.clean" =>
        /\ (before.release = "dir" /\ inv.e.rmtreeErr = "none") =>
              /\ fs.release = "dir"
              /\ fs.files = EmptyDict
              /\ Succeeded
        /\ (before.release = "dir" /\ inv.e.rmtreeErr # "none") =>
              /\ StepsAt("warning") # {}
              /\ StepsAt("mkdir release") = {}
              /\ Succeeded
        /\ before.release # "dir" =>
              /\ fs = before
              /\ trace = <<>>
              /\ Succeeded

C9_Witness ==
    /\ inv.task = "release.clean"
    /\ before.release = "dir"
    /\ before.files # EmptyDict
    /\ inv.e.rmtreeErr = "none"
    /\ fs.release = "dir"
    /\ fs.files = EmptyDict

----
\* The architecture string

\* ARCH is set in the environment of the run
ArchGiven == "ARCH" \in DOMAIN inv.e.osEnv

\* uname is found and `uname -s` and `uname -m` both succeed
UnameWorks ==
    inv.e.whichRc["uname"] = 0 /\ inv.e.unameS.rc = 0 /\ inv.e.unameM.rc = 0

\* The architecture string the fallback chain gives in the run's environment
ChainArch ==
    IF ArchGiven THEN inv.e.osEnv["ARCH"]
    ELSE IF UnameWorks
    THEN Strip(inv.e.unameM.out) \o Chars("-") \o Lower(Strip(inv.e.unameS.out))
    ELSE Chars("unknown")

\* C14: in a task of the release package every fpm run gets the architecture
\* the fallback chain gives: the value of ARCH when it is set, and then uname
\* is neither looked for nor run; otherwise <machine>-<lower-cased OS name>
\* when uname is found and `uname -s` and `uname -m` succeed, and 'unknown'
\* in the remaining cases. The bundle name build() makes carries the same
\* string.
C14_ArchByFallbackChain ==
    TargetsOf(inv.task) # {} =>
        /\ \A i \in FpmRuns :
              LET Named(flags) ==
                      /\ OdGet(flags, "architecture") = ChainArch
                      /\ OdGet(flags, "package") \in
                            {mktemp(inv.e),
                             PathJoin(OUTPUT_DIR,
                                      fs.cargo["name"] \o Chars("-")
                                          \o fs.cargo["version"] \o Chars("-")
                                          \o ChainArch \o Chars(".")
                                          \o OdGet(flags, "t"))}
              IN  /\ Named(trace[i].flags)
                  /\ ArchGiven \/ \E k \in CommandsAt("which uname") : k < i
        /\ ArchGiven => CommandsAt("which uname") = {} /\ CommandsAt("uname ") = {}
        /\ (~ArchGiven /\ inv.e.whichRc["uname"] # 0) => CommandsAt("uname ") = {}

\* C14 witness: a deb bundle made with ARCH set, and named after it
C14_Witness ==
    /\ inv.task = "deb"
    /\ Succeeded
    /\ ArchGiven
    /\ RunArch = inv.e.osEnv["ARCH"]
    /\ CommandsAt("which uname") = {}
    /\ Chars("release/gisht-0.1-amd64.deb") \in OutputsWritten

-----------------------------------------------------------------------------
(* Properties of hex_digest (SpecDigest) *)

\* The content of the file the last call of hex_digest has read
Digested == before.files[inv.args.argv[1]]

\* hasher.update(content); hasher.hexdigest() on a new hasher
DigestAtOnce(content) == HexDigest(HashUpdate(7, content, 1))

\* C15: for every file content and every buf_size >= 1 hex_digest returns
\* the digest of the whole content hashed at once. No other content of the
\* model has that digest, so a byte that is skipped, fed twice or fed out of
\* order would show in the value returned.
C15_ChunkedDigestIsDigestAtOnce ==
    inv.task = "hex_digest" =>
        /\ trace[1].cmd = DigestAtOnce(Digested)
        /\ \A c \in FileContents : c # Digested => DigestAtOnce(c) # trace[1].cmd

\* C15 witness: a file read in several chunks, the last of them shorter than
\* buf_size
C15_Witness ==
    /\ inv.task = "hex_digest"
    /\ inv.args.buf_size > 1
    /\ Len(Digested) > inv.args.buf_size
    /\ Len(Digested) % inv.args.buf_size # 0
    /\ trace[1].cmd = DigestAtOnce(Digested)

=============================================================================
